---- MODULE Spec2Model ----
(***************************************************************************)
(* Model of the retrieval / iterative-search control core of drive-rag.    *)
(*                                                                         *)
(*   app/agents/iterative_rag.py   IterativeRAGAgent                        *)
(*   app/rerank/bge.py             BGEReranker.rerank                       *)
(*   app/generate/llm.py           LLMService.generate                      *)
(*   app/main.py                   calculate_dynamic_top_k, ask_question,   *)
(*                                 deep_research, start_ingest              *)
(*   app/retrieval/hybrid.py       HybridRetriever                          *)
(*   app/tasks.py                  ingest_folder_task                       *)
(*                                                                         *)
(* Representation notes.                                                   *)
(*  - A confidence is a rational; it is stored as an integer number of     *)
(*    1/ConfDen units (ConfDen = 200 is the common denominator of the      *)
(*    "/ 100.0" of the JSON branch and the "/ 40" of the heuristic).       *)
(*  - A Python dict that keeps insertion order (all_sources) is a sequence *)
(*    of chunk records with pairwise distinct chunk_id.                    *)
(*  - A text (an LLM response, a query, an answer) is a sequence of tokens  *)
(*    and stands for their concatenation.  A whitespace character is a     *)
(*    token of its own (" ", "\n", "\t", ...), and so are a brace, "[", a   *)
(*    quotation mark and "?".  "m" is a well-formed run of JSON members    *)
(*    written without whitespace.  Every other token is a run of other     *)
(*    characters; neighbouring tokens that are no whitespace form one word. *)
(*  - A query string of calculate_dynamic_top_k and a chunk text are       *)
(*    sequences of single characters.                                      *)
(***************************************************************************)
EXTENDS Integers, Sequences, FiniteSets, TLC

VARIABLES
    \* ---- IterativeRAGAgent (constructor arguments) ----
    max_iterations,
    confidence_threshold,
    max_sources,
    initial_candidates,
    \* ---- IterativeRAGAgent.search_iteratively (locals) ----
    pc,                   \* position in search_iteratively
    all_sources,          \* dict chunk_id -> chunk, in insertion order
    iterations,           \* list of SearchIteration
    current_query,
    iteration,            \* loop variable of "for iteration in range(...)"
    candidates,           \* result of the retrieval of this iteration
    reranked,             \* Unbound until the first rerank call
    assessment_result,    \* Unbound until the first assessment
    result,               \* the returned dict, or the raised exception
    reranker_called,      \* the arguments of the last reranker.rerank call
    assessor_called,      \* the arguments of the last _assess_completeness call
    followup_called,      \* the last _generate_followup_query call and its provider
    \* ---- one call of IterativeRAGAgent._assess_completeness ----
    assess_sources,       \* the sources argument
    assess_llm,           \* what the provider call of this assessment does
    assess_result,        \* Unbound until the call has returned
    \* ---- one call of calculate_dynamic_top_k ----
    request_query,        \* the query argument
    estimated_top_k,      \* Unbound until the call has returned
    \* ---- one call of BGEReranker.rerank ----
    rerank_call,          \* the arguments and what the cross-encoder does
    rerank_returned,      \* Unbound until the call has returned
    \* ---- one call of HybridRetriever._reciprocal_rank_fusion ----
    rrf_call,
    rrf_returned,
    \* ---- one call of HybridRetriever.search ----
    search_call,          \* the arguments and what the services do
    search_returned,
    \* ---- one call of HybridRetriever.document_search ----
    docsearch_call,
    docsearch_returned,
    \* ---- the sources of one response of an endpoint ----
    sources_call,         \* the endpoint and the chunk it answers with
    sources_returned,
    \* ---- one request to /ask (ask_question) ----
    ask_call,
    ask_response,
    \* ---- one request to /research (deep_research) ----
    research_call,
    research_response,
    \* ---- one call of IterativeRAGAgent._broaden_query ----
    broaden_call,         \* original_query and iteration
    broaden_returned,
    \* ---- one ingest job: start_ingest and ingest_folder_task ----
    ingest_job,           \* the row of ingest_jobs
    ingest_task,          \* position and locals of ingest_folder_task
    ingest_handler,       \* position of start_ingest
    ingest_response       \* Unbound until start_ingest has answered

agentVars == <<max_iterations, confidence_threshold, max_sources,
               initial_candidates, pc, all_sources, iterations,
               current_query, iteration, candidates, reranked,
               assessment_result, result, reranker_called, assessor_called,
               followup_called>>

assessVars == <<assess_sources, assess_llm, assess_result>>

topkVars == <<request_query, estimated_top_k>>

rerankVars == <<rerank_call, rerank_returned>>

rrfVars == <<rrf_call, rrf_returned>>

searchVars == <<search_call, search_returned>>

docsearchVars == <<docsearch_call, docsearch_returned>>

sourcesVars == <<sources_call, sources_returned>>

askVars == <<ask_call, ask_response>>

researchVars == <<research_call, research_response>>

broadenVars == <<broaden_call, broaden_returned>>

ingestVars == <<ingest_job, ingest_task, ingest_handler, ingest_response>>

otherVars == <<broadenVars, ingestVars>>

callVars == <<rerankVars, rrfVars, searchVars, docsearchVars, sourcesVars,
              askVars, researchVars, otherVars>>

vars == <<agentVars, assessVars, topkVars, callVars>>

-----------------------------------------------------------------------------
(* Bounds of the model *)

MaxIterationsBound == 2
MaxSourcesBound == 2
NumChunkIds == 2
MaxCandidates == 2
MaxAssessSources == 18
MaxPhrases == 3
MaxFillerWords == 20
MaxRerankDocs == 3
MaxRerankTopK == 3
NumFusedIds == 3
MaxFusionTopK == 3
MaxTextLen == 204
MaxSearchTopK == 2
MaxTopDocs == 2
MaxAskTopK == 2
MaxBroadenWords == 3
MaxBroadenIteration == 5
MaxParsedSubQuestions == 6
MaxIngestFiles == 3

-----------------------------------------------------------------------------
(* Generic helpers *)

Min(a, b) == IF a <= b THEN a ELSE b
Max(a, b) == IF a >= b THEN a ELSE b

\* Sequences over S of length at most n
SeqsUpTo(S, n) == UNION { [1..k -> S] : k \in 0..n }

\* Python s[:n] for n >= 0
Take(s, n) == SubSeq(s, 1, Min(n, Len(s)))

\* A Python local: not assigned yet, or bound to a value
Unbound == [bound |-> FALSE]
Bound(v) == [bound |-> TRUE, value |-> v]

-----------------------------------------------------------------------------
(* Confidence arithmetic *)

ConfDen == 5 * 40

\* x / 100.0 for a confidence percentage x
PercentToConf(x) == x * (ConfDen \div 100)

\* the constructor default / the value main.py passes: 0.85
DefaultConfidenceThreshold == PercentToConf(85)

-----------------------------------------------------------------------------
(* Data: chunks and retrieval results *)

ChunkIds == 1..NumChunkIds

\* A chunk text is a sequence of characters.
\* Two retrievals can return the same chunk id with different content: the
\* chunk with id 1 is re-indexed between retrievals, the others are not
ChunkTexts(id) == IF id = 1 THEN {<<"a">>, <<"b">>} ELSE {<<"a">>}

Chunks == UNION { [chunk_id : {id}, text : ChunkTexts(id)] : id \in ChunkIds }

IdsOf(s) == { s[i].chunk_id : i \in 1..Len(s) }

DistinctIds(s) == \A i, j \in 1..Len(s) : i # j => s[i].chunk_id # s[j].chunk_id

\* What HybridRetriever.search(query, top_k) can return: at most top_k
\* chunks, pairwise distinct ids (they are the keys of the fusion dict).
RetrievalResults(top_k) ==
    { s \in SeqsUpTo(Chunks, top_k) : DistinctIds(s) }

\* The characters of the model's alphabet that str.strip() and str.split()
\* take for whitespace: blank, tab, line feed, carriage return, form feed,
\* no-break space
Whitespace == {" ", "\t", "\n", "\r", "\f", " "}

\* str.strip(chars): chars is the set of characters removed from both ends;
\* str.strip() is Strip(s, Whitespace)
RECURSIVE StripLeft(_, _)
StripLeft(s, chars) ==
    IF s # <<>> /\ s[1] \in chars THEN StripLeft(Tail(s), chars) ELSE s

RECURSIVE StripRight(_, _)
StripRight(s, chars) ==
    IF s # <<>> /\ s[Len(s)] \in chars
    THEN StripRight(SubSeq(s, 1, Len(s) - 1), chars) ELSE s

Strip(s, chars) == StripRight(StripLeft(s, chars), chars)

-----------------------------------------------------------------------------
(* LLMService.generate, app/generate/llm.py *)

\* What the provider call self.llm.invoke does: it answers with a text, or
\* it raises an exception whose message is a text.  payload is the value the
\* token "m" of the text stands for.
EmptyPayload ==
    [confidence |-> [kind |-> "absent"],
     missing_info |-> [kind |-> "absent"],
     reasoning |-> [kind |-> "absent"]]

LLMOutcome(ok, text, payload) == [ok |-> ok, text |-> text, payload |-> payload]

\* f"Virhe vastauksen generoinnissa: {str(e)}" up to the message
GenerationErrorPrefix ==
    <<"Virhe", " ", "vastauksen", " ", "generoinnissa:", " ">>

\* generate catches every provider exception and returns an error text
\* instead; it never raises.  The answer is stripped, the error text is
\* not.
generate(llm) ==
    IF llm.ok
    THEN [raised |-> FALSE, value |-> Strip(llm.text, Whitespace)]
    ELSE [raised |-> FALSE, value |-> GenerationErrorPrefix \o llm.text]

-----------------------------------------------------------------------------
(* BGEReranker.rerank, app/rerank/bge.py *)

\* list.sort(key=rerank_score, reverse=True): descending and stable
RECURSIVE InsertByScore(_, _)
InsertByScore(sorted, doc) ==
    IF sorted = <<>> THEN <<doc>>
    ELSE IF sorted[Len(sorted)].rerank_score >= doc.rerank_score
         THEN Append(sorted, doc)
         ELSE Append(InsertByScore(SubSeq(sorted, 1, Len(sorted) - 1), doc),
                     sorted[Len(sorted)])

RECURSIVE SortByScoreDesc(_)
SortByScoreDesc(docs) ==
    IF docs = <<>> THEN <<>>
    ELSE InsertByScore(SortByScoreDesc(SubSeq(docs, 1, Len(docs) - 1)),
                       docs[Len(docs)])

\* the except branch returns nothing instead of documents[:top_k]
rerank_FallbackEmpty(query, documents, top_k, scorer) ==
    IF documents = <<>> THEN <<>>
    ELSE IF scorer.ok /\ Len(scorer.scores) <= Len(documents)
         THEN LET scored_docs ==
                      [idx \in 1..Len(scorer.scores) |->
                          [chunk_id |-> documents[idx].chunk_id,
                           text |-> documents[idx].text,
                           rerank_score |-> scorer.scores[idx]]]
              IN Take(SortByScoreDesc(scored_docs), top_k)
         ELSE <<>>

\* the except branch returns the documents without the cut to top_k
rerank_FallbackUncut(query, documents, top_k, scorer) ==
    IF documents = <<>> THEN <<>>
    ELSE IF scorer.ok /\ Len(scorer.scores) <= Len(documents)
         THEN LET scored_docs ==
                      [idx \in 1..Len(scorer.scores) |->
                          [chunk_id |-> documents[idx].chunk_id,
                           text |-> documents[idx].text,
                           rerank_score |-> scorer.scores[idx]]]
              IN Take(SortByScoreDesc(scored_docs), top_k)
         ELSE documents

\* scorer is the outcome of self.model.predict(pairs): a list of scores (ok)
\* or an exception (~ok).  The score at a position goes to the document at
\* that position; a score without a document raises IndexError, which the
\* except branch catches like a failing model.
rerank(query, documents, top_k, scorer) ==
    IF documents = <<>> THEN <<>>
    ELSE IF scorer.ok /\ Len(scorer.scores) <= Len(documents)
         THEN LET scored_docs ==
                      [idx \in 1..Len(scorer.scores) |->
                          [chunk_id |-> documents[idx].chunk_id,
                           text |-> documents[idx].text,
                           rerank_score |-> scorer.scores[idx]]]
              IN Take(SortByScoreDesc(scored_docs), top_k)
         ELSE Take(documents, top_k)

-----------------------------------------------------------------------------
(* IterativeRAGAgent._assess_completeness *)

\* str.find / str.rfind: 0-based index of the first / last occurrence, or -1
find(s, tok) ==
    IF \E i \in 1..Len(s) : s[i] = tok
    THEN (CHOOSE i \in 1..Len(s) :
              s[i] = tok /\ \A j \in 1..(i - 1) : s[j] # tok) - 1
    ELSE -1

rfind(s, tok) ==
    IF \E i \in 1..Len(s) : s[i] = tok
    THEN (CHOOSE i \in 1..Len(s) :
              s[i] = tok /\ \A j \in (i + 1)..Len(s) : s[j] # tok) - 1
    ELSE -1

\* s[a:b] for 0 <= a, 0 <= b
Slice(s, a, b) == SubSeq(s, a + 1, Min(b, Len(s)))

\* the whitespace of JSON: blank, tab, line feed, carriage return
JsonWhitespace == {" ", "\t", "\n", "\r"}

\* the tokens of s that are no JSON whitespace, in order
RECURSIVE WithoutJsonWhitespace(_)
WithoutJsonWhitespace(s) ==
    IF s = <<>> THEN <<>>
    ELSE IF s[1] \in JsonWhitespace THEN WithoutJsonWhitespace(Tail(s))
    ELSE <<s[1]>> \o WithoutJsonWhitespace(Tail(s))

\* json.loads on the extracted substring: an object, or JSONDecodeError.
\* JSON allows whitespace between the braces and the members.
json_loads(json_str, payload) ==
    IF WithoutJsonWhitespace(json_str) = <<"{", "m", "}">>
    THEN [ok |-> TRUE, dict |-> payload]
    ELSE IF WithoutJsonWhitespace(json_str) = <<"{", "}">>
    THEN [ok |-> TRUE, dict |-> EmptyPayload]
    ELSE [ok |-> FALSE, dict |-> EmptyPayload]

\* min(0.5 + (len(sources) / 40), 0.9)
HeuristicConfidence(n) ==
    Min(ConfDen \div 2 + n * (ConfDen \div 40), (9 * ConfDen) \div 10)

FallbackAssessment(sources) ==
    [assessment |-> "Loydettiin n lahdetta",
     confidence |-> HeuristicConfidence(Len(sources)),
     missing_info |-> <<>>]

\* the answer to "no sources" with nothing reported missing
NoSourcesAssessment_NothingMissing ==
    [assessment |-> "Ei lähteitä löytynyt",
     confidence |-> 0,
     missing_info |-> <<>>]

\* lines 191-196: if not sources
NoSourcesAssessment ==
    [assessment |-> "Ei lähteitä löytynyt",
     confidence |-> 0,
     missing_info |-> <<"Tarvitaan relevantteja lähteitä">>]

\* llm is the outcome of the provider call made by this assessment
_assess_completeness(query, sources, iter, llm) ==
    IF sources = <<>>
    THEN NoSourcesAssessment
    ELSE LET call == generate(llm)
             response == call.value
             start_idx == find(response, "{")
             end_idx == rfind(response, "}") + 1
             parsed == json_loads(Slice(response, start_idx, end_idx), llm.payload)
             given == IF parsed.dict.confidence.kind = "absent"
                      THEN [kind |-> "number", value |-> 50]
                      ELSE parsed.dict.confidence
             \* bool is a subclass of int: True / 100.0 is 0.01
             conf == IF given.kind = "bool"
                     THEN [kind |-> "number", value |-> IF given.truth THEN 1 ELSE 0]
                     ELSE given
         IN IF call.raised THEN FallbackAssessment(sources)
            ELSE IF ~(start_idx >= 0 /\ end_idx > start_idx)
                 THEN FallbackAssessment(sources)
            ELSE IF ~parsed.ok THEN FallbackAssessment(sources)
            ELSE IF conf.kind # "number" THEN FallbackAssessment(sources)
            ELSE [assessment |->
                      IF parsed.dict.reasoning.kind = "absent"
                      THEN "Ei perustelua" ELSE "reasoning",
                  confidence |-> PercentToConf(conf.value),
                  missing_info |->
                      IF parsed.dict.missing_info.kind = "list"
                      THEN parsed.dict.missing_info.items ELSE <<>>]

-----------------------------------------------------------------------------
(* IterativeRAGAgent._generate_followup_query and _broaden_query *)

\* The items of a JSON list are written as their text; the number 1 is the
\* one item of the model that is no string.
NonStringItems == {"1"}

\* line 278: ", ".join(...) raises TypeError when an item is no string
JoinRaises(items) == \E i \in 1..Len(items) : items[i] \in NonStringItems

\* lines 275-294; raised: the TypeError of line 278, which is outside the
\* try.  llm is the outcome of the provider call (made only after line 278).
_generate_followup_query(original_query, missing_info, llm) ==
    IF missing_info = <<>> THEN [raised |-> FALSE, value |-> original_query]
    ELSE IF JoinRaises(Take(missing_info, 3)) THEN [raised |-> TRUE, value |-> <<>>]
    ELSE LET call == generate(llm)
         IN IF call.raised
            THEN [raised |-> FALSE,
                  value |-> original_query \o <<" ", missing_info[1]>>]
            ELSE [raised |-> FALSE,
                  value |-> Strip(Strip(Strip(call.value, Whitespace), {"\""}), {"'"})]

broadening_patterns(original_query) ==
    << <<"kaikki", " ", "tiedot", " ">> \o original_query,
       <<"kattava", " ", "selvitys", " ">> \o original_query,
       <<"laaja", " ", "haku", " ">> \o original_query,
       <<"eri", " ", "näkökulmat", " ">> \o original_query >>

\* the first pattern whatever the iteration
_broaden_query_First(original_query, iter) == broadening_patterns(original_query)[1]

_broaden_query(original_query, iter) ==
    LET idx == (iter - 1) % Len(broadening_patterns(original_query))
    IN broadening_patterns(original_query)[idx + 1]

-----------------------------------------------------------------------------
(* Inputs of one search_iteratively run *)

OriginalQuery == <<"q">>

JsonAbsent == [kind |-> "absent"]
JsonString == [kind |-> "string"]
JsonNumber(v) == [kind |-> "number", value |-> v]
JsonBool(v) == [kind |-> "bool", truth |-> v]
JsonList(l) == [kind |-> "list", items |-> l]

Payload(confidence, missing_info) ==
    [confidence |-> confidence, missing_info |-> missing_info,
     reasoning |-> JsonString]

\* What the assessor LLM can put in the object: a confidence below 0, inside
\* 0..100 (below and above the threshold) or above 100, no confidence at
\* all, true, or a string; a list of gaps, a list that holds a number, no
\* list, or a string.
AssessorPayloads ==
    { Payload(JsonNumber(-10), JsonAbsent),
      Payload(JsonNumber(50), JsonList(<<"gap">>)),
      Payload(JsonNumber(90), JsonList(<<"gap">>)),
      Payload(JsonNumber(150), JsonString),
      Payload(JsonAbsent, JsonList(<<"gap">>)),
      Payload(JsonString, JsonAbsent),
      Payload(JsonBool(TRUE), JsonList(<<"1">>)) }

\* response texts without an object: empty, prose, a brace of one kind only,
\* "}" before "{", braces around prose, an object followed by a second "}"
TextsWithoutObject ==
    { <<>>, <<"w">>, <<"{", "w">>, <<"w", "}">>, <<"}", "{">>,
      <<"{", "w", "}">>, <<"{", "m", "}", "}">> }

\* response texts with one object: alone, inside prose, or written on
\* lines of its own
TextsWithObject ==
    { <<"{", "m", "}">>, <<"w", " ", "{", "m", "}", " ", "w">>,
      <<"{", "\n", "m", "\n", "}">> }

\* str(e) of a failed provider call that quotes the JSON body of the
\* server's answer
MessageWithObject == <<"Details:", " ", "{", "m", "}">>

\* provider outcomes of the assessment call: a text with the members it
\* carries, or an exception with its message, which is plain text or quotes
\* a JSON object (whose members need not be those of an assessment)
AssessorLLMOutcomes ==
    { LLMOutcome(TRUE, t, EmptyPayload) : t \in TextsWithoutObject }
        \cup { LLMOutcome(TRUE, t, p) : t \in TextsWithObject, p \in AssessorPayloads }
        \cup { LLMOutcome(FALSE, <<"timeout">>, EmptyPayload) }
        \cup { LLMOutcome(FALSE, MessageWithObject, p) :
                   p \in AssessorPayloads \cup {EmptyPayload} }

\* the assessor outcomes of a search_iteratively run: prose, every object
\* (written on lines of its own), or an exception whose message is plain or
\* quotes an object with a confidence of 90
RunAssessorLLMOutcomes ==
    { llm \in AssessorLLMOutcomes :
          \/ llm.text \in { <<"w">>, <<"{", "\n", "m", "\n", "}">>, <<"timeout">> }
          \/ /\ llm.text = MessageWithObject
             /\ llm.payload = Payload(JsonNumber(90), JsonList(<<"gap">>)) }

\* provider outcomes of the follow-up query call
FollowupLLMOutcomes ==
    { LLMOutcome(TRUE, <<"followup">>, EmptyPayload),
      LLMOutcome(TRUE, <<"\n", "\"", "followup", "\"", "\n">>, EmptyPayload),
      LLMOutcome(FALSE, <<"timeout">>, EmptyPayload) }

\* provider outcomes of the final answer call
AnswerLLMOutcomes ==
    { LLMOutcome(TRUE, <<"answer", "\n">>, EmptyPayload),
      LLMOutcome(FALSE, <<"timeout", " ">>, EmptyPayload) }

\* what the cross-encoder does during one request: it scores a chunk by
\* its content (scores that rise with the chunk id and tie for some
\* neighbouring ids), or it raises
Scorers ==
    { [ok |-> TRUE, scores |-> [i \in ChunkIds |-> i \div 2]],
      [ok |-> FALSE, scores |-> [i \in ChunkIds |-> 0]] }

\* self.model.predict(pairs) for the pairs of these documents, in order
predict(scorer, documents) ==
    [ok |-> scorer.ok,
     scores |-> [idx \in 1..Len(documents) |-> scorer.scores[documents[idx].chunk_id]]]

-----------------------------------------------------------------------------
(* IterativeRAGAgent.search_iteratively *)

\* all_sources[chunk_id] = cand without the membership test
RECURSIVE MergeNewSources_Overwrite(_, _)
MergeNewSources_Overwrite(sources, cands) ==
    IF cands = <<>> THEN sources
    ELSE MergeNewSources_Overwrite(
             IF cands[1].chunk_id \in IdsOf(sources)
             THEN [i \in 1..Len(sources) |->
                      IF sources[i].chunk_id = cands[1].chunk_id
                      THEN cands[1] ELSE sources[i]]
             ELSE Append(sources, cands[1]),
             Tail(cands))

\* lines 89-93: add the candidates whose chunk_id is not a key yet
RECURSIVE MergeNewSources(_, _)
MergeNewSources(sources, cands) ==
    IF cands = <<>> THEN sources
    ELSE MergeNewSources(
             IF cands[1].chunk_id \in IdsOf(sources)
             THEN sources
             ELSE Append(sources, cands[1]),
             Tail(cands))

\* range(1, self.max_iterations + 1) has a value after `iter`
HasNextIteration(iter) == iter < max_iterations

\* the threshold read as a percentage
IsSatisfied_PercentScale(confidence) == confidence >= 100 * confidence_threshold

\* line 125
IsSatisfied(confidence) == confidence >= confidence_threshold

\* line 130
SourceLimitReached(sources) == Len(sources) >= max_sources

\* line 135
IterationLimitReached(iter) == iter >= max_iterations

SearchIteration(iter, query, num_results, a) ==
    [iteration |-> iter,
     query |-> query,
     num_results |-> num_results,
     assessment |-> a.assessment,
     confidence |-> a.confidence,
     missing_info |-> a.missing_info]

\* src['text'][:200]
FormatSnippetChars == 200

\* lines 385-387: the first 200 characters, then "..." if the text is longer
_format_sources(sources) ==
    [i \in 1..Len(sources) |->
        [chunk_id |-> sources[i].chunk_id,
         snippet |-> IF Len(sources[i].text) > FormatSnippetChars
                     THEN Take(sources[i].text, FormatSnippetChars) \o <<".", ".", ".">>
                     ELSE Take(sources[i].text, FormatSnippetChars)]]

\* iterations[-1].confidence if iterations else 0.0
FinalConfidence(its) == IF its # <<>> THEN its[Len(its)].confidence ELSE 0

\* lines 370-379: generate never raises, so the answer is its stripped text
_generate_comprehensive_answer(query, sources, its, llm) ==
    Strip(generate(llm).value, Whitespace)

InitAgent ==
    /\ max_iterations \in 0..MaxIterationsBound
    /\ confidence_threshold = DefaultConfidenceThreshold
    /\ max_sources \in 1..MaxSourcesBound
    /\ initial_candidates = MaxCandidates
    /\ pc = "loop"
    /\ all_sources = <<>>
    /\ iterations = <<>>
    /\ current_query = OriginalQuery
    /\ iteration = 0
    /\ candidates = <<>>
    /\ reranked = Unbound
    /\ assessment_result = Unbound
    /\ result = Unbound
    /\ reranker_called = Unbound
    /\ assessor_called = Unbound
    /\ followup_called = Unbound

calledVars == <<reranker_called, assessor_called, followup_called>>

\* min(self.max_sources, len(all_sources_list)) without the length
RerankLimit_MaxSources(limit, sources) == limit

\* min(self.max_sources, len(all_sources_list))
RerankLimit(limit, sources) == Min(limit, Len(sources))

config == <<max_iterations, confidence_threshold, max_sources, initial_candidates>>

\* lines 80-85 when self.retriever.search raises (the embedding call of
\* HybridRetriever.search is outside every try): nothing in
\* search_iteratively catches it
SearchRaises ==
    /\ pc = "loop"
    /\ HasNextIteration(iteration)
    /\ iteration' = iteration + 1
    /\ result' = [exception |-> "EmbeddingError"]
    /\ pc' = "raised"
    /\ UNCHANGED <<assessVars, topkVars, callVars, calledVars, config, all_sources, iterations, current_query, candidates, reranked,
                   assessment_result>>

\* lines 80-95: next value of the loop variable, retrieve, deduplicate
Search ==
    /\ pc = "loop"
    /\ HasNextIteration(iteration)
    /\ iteration' = iteration + 1
    /\ \E found \in RetrievalResults(initial_candidates) :
           /\ candidates' = found
           /\ all_sources' = MergeNewSources(all_sources, found)
    /\ pc' = "rerank"
    /\ UNCHANGED <<assessVars, topkVars, callVars, calledVars, config, iterations, current_query, reranked,
                   assessment_result, result>>

\* the for loop runs out of values (only when the body never ran)
LoopExhausted ==
    /\ pc = "loop"
    /\ ~HasNextIteration(iteration)
    /\ pc' = "report"
    /\ UNCHANGED <<assessVars, topkVars, callVars, calledVars, config, all_sources, iterations, current_query, iteration, candidates,
                   reranked, assessment_result, result>>

\* lines 97-103
Rerank ==
    /\ pc = "rerank"
    /\ reranker_called' = Bound([query |-> OriginalQuery,
                                  documents |-> all_sources,
                                  top_k |-> RerankLimit(max_sources, all_sources)])
    /\ \E scorer \in Scorers :
           reranked' = Bound(rerank(reranker_called'.value.query,
                                    reranker_called'.value.documents,
                                    reranker_called'.value.top_k,
                                    predict(scorer, all_sources)))
    /\ pc' = "assess"
    /\ UNCHANGED <<assessVars, topkVars, callVars, assessor_called, followup_called, config, all_sources, iterations, current_query, iteration, candidates,
                   assessment_result, result>>

\* lines 105-119
Assess ==
    /\ pc = "assess"
    /\ assessor_called' = Bound([query |-> OriginalQuery,
                                  sources |-> reranked.value,
                                  iteration |-> iteration])
    /\ \E llm \in RunAssessorLLMOutcomes :
           LET a == _assess_completeness(assessor_called'.value.query,
                                         assessor_called'.value.sources,
                                         assessor_called'.value.iteration, llm)
           IN /\ assessment_result' = Bound(a)
              /\ iterations' = Append(iterations,
                     SearchIteration(iteration, current_query,
                                     Len(reranked.value), a))
    /\ pc' = "decide"
    /\ UNCHANGED <<assessVars, topkVars, callVars, reranker_called, followup_called, config, all_sources, current_query, iteration, candidates, reranked, result>>

\* lines 124-127
Satisfied ==
    /\ pc = "decide"
    /\ IsSatisfied(assessment_result.value.confidence)
    /\ pc' = "report"
    /\ UNCHANGED <<assessVars, topkVars, callVars, calledVars, config, all_sources, iterations, current_query, iteration, candidates,
                   reranked, assessment_result, result>>

\* lines 129-132
StopAtSourceLimit ==
    /\ pc = "decide"
    /\ ~IsSatisfied(assessment_result.value.confidence)
    /\ SourceLimitReached(all_sources)
    /\ pc' = "report"
    /\ UNCHANGED <<assessVars, topkVars, callVars, calledVars, config, all_sources, iterations, current_query, iteration, candidates,
                   reranked, assessment_result, result>>

\* lines 134-137
StopAtIterationLimit ==
    /\ pc = "decide"
    /\ ~IsSatisfied(assessment_result.value.confidence)
    /\ ~SourceLimitReached(all_sources)
    /\ IterationLimitReached(iteration)
    /\ pc' = "report"
    /\ UNCHANGED <<assessVars, topkVars, callVars, calledVars, config, all_sources, iterations, current_query, iteration, candidates,
                   reranked, assessment_result, result>>

\* lines 139-145 when _generate_followup_query raises at its line 278,
\* before the provider is called
FollowupRaises ==
    /\ pc = "decide"
    /\ ~IsSatisfied(assessment_result.value.confidence)
    /\ ~SourceLimitReached(all_sources)
    /\ ~IterationLimitReached(iteration)
    /\ assessment_result.value.missing_info # <<>>
    /\ \E llm \in FollowupLLMOutcomes :
           _generate_followup_query(
               OriginalQuery, assessment_result.value.missing_info, llm).raised
    /\ followup_called' =
           Bound([original_query |-> OriginalQuery,
                  missing_info |-> assessment_result.value.missing_info,
                  provider |-> "not called"])
    /\ result' = [exception |-> "TypeError"]
    /\ pc' = "raised"
    /\ UNCHANGED <<assessVars, topkVars, callVars, reranker_called, assessor_called, config, all_sources, iterations, current_query, iteration, candidates, reranked,
                   assessment_result>>

\* lines 139-145
Followup ==
    /\ pc = "decide"
    /\ ~IsSatisfied(assessment_result.value.confidence)
    /\ ~SourceLimitReached(all_sources)
    /\ ~IterationLimitReached(iteration)
    /\ assessment_result.value.missing_info # <<>>
    /\ \E llm \in FollowupLLMOutcomes :
           LET call == _generate_followup_query(
                           OriginalQuery, assessment_result.value.missing_info, llm)
           IN /\ ~call.raised
              /\ followup_called' =
                     Bound([original_query |-> OriginalQuery,
                            missing_info |-> assessment_result.value.missing_info,
                            provider |-> IF llm.ok THEN "answered" ELSE "raised"])
              /\ current_query' = call.value
    /\ pc' = "loop"
    /\ UNCHANGED <<assessVars, topkVars, callVars, reranker_called, assessor_called, config, all_sources, iterations, iteration, candidates, reranked,
                   assessment_result, result>>

\* lines 146-149
Broaden ==
    /\ pc = "decide"
    /\ ~IsSatisfied(assessment_result.value.confidence)
    /\ ~SourceLimitReached(all_sources)
    /\ ~IterationLimitReached(iteration)
    /\ assessment_result.value.missing_info = <<>>
    /\ current_query' = _broaden_query(OriginalQuery, iteration)
    /\ pc' = "loop"
    /\ UNCHANGED <<assessVars, topkVars, callVars, calledVars, config, all_sources, iterations, iteration, candidates, reranked,
                   assessment_result, result>>

\* lines 151-177 when `reranked` was never assigned: len(reranked) on line
\* 152 raises UnboundLocalError
ReportRaises ==
    /\ pc = "report"
    /\ ~reranked.bound
    /\ result' = [exception |-> "UnboundLocalError"]
    /\ pc' = "raised"
    /\ UNCHANGED <<assessVars, topkVars, callVars, calledVars, config, all_sources, iterations, current_query, iteration, candidates,
                   reranked, assessment_result>>

\* lines 151-177
Report ==
    /\ pc = "report"
    /\ reranked.bound
    /\ \E llm \in AnswerLLMOutcomes :
           result' = [answer |-> _generate_comprehensive_answer(
                                     OriginalQuery, reranked.value, iterations, llm),
                      sources |-> _format_sources(reranked.value),
                      iterations |-> iterations,
                      total_sources |-> Len(reranked.value),
                      total_iterations |-> Len(iterations),
                      final_confidence |-> FinalConfidence(iterations)]
    /\ pc' = "done"
    /\ UNCHANGED <<assessVars, topkVars, callVars, calledVars, config, all_sources, iterations, current_query, iteration, candidates,
                   reranked, assessment_result>>

NextAgent ==
    \/ Search
    \/ SearchRaises
    \/ LoopExhausted
    \/ Rerank
    \/ Assess
    \/ Satisfied
    \/ StopAtSourceLimit
    \/ StopAtIterationLimit
    \/ Followup
    \/ FollowupRaises
    \/ Broaden
    \/ ReportRaises
    \/ Report

-----------------------------------------------------------------------------
(* calculate_dynamic_top_k, app/main.py *)
(* A query string is the sequence of its characters.                        *)

\* The cased letters of the model's alphabet and their lower-case forms:
\* A-Z, the Finnish letters, two more accented letters and the Kelvin sign
\* (written "U+212A"), whose lower-case form is the ASCII letter k
UpperChars == <<"A", "B", "C", "D", "E", "F", "G", "H", "I", "J", "K", "L", "M", "N", "O", "P", "Q", "R", "S", "T", "U", "V", "W", "X", "Y", "Z", "Ä", "Ö", "Å", "É", "Ü", "U+212A">>

LowerChars == <<"a", "b", "c", "d", "e", "f", "g", "h", "i", "j", "k", "l", "m", "n", "o", "p", "q", "r", "s", "t", "u", "v", "w", "x", "y", "z", "ä", "ö", "å", "é", "ü", "k">>

\* one character of str.lower()
LowerChar(c) ==
    IF \E i \in 1..Len(UpperChars) : UpperChars[i] = c
    THEN LowerChars[CHOOSE i \in 1..Len(UpperChars) : UpperChars[i] = c]
    ELSE c

\* str.lower()
lower(s) == [i \in 1..Len(s) |-> LowerChar(s[i])]

\* keyword in s
Contains(s, keyword) ==
    \E i \in 1..(Len(s) - Len(keyword) + 1) :
        \A j \in 1..Len(keyword) : s[i + j - 1] = keyword[j]

\* any(keyword in s for keyword in keywords)
ContainsAny(s, keywords) ==
    \E n \in 1..Len(keywords) : Contains(s, keywords[n])

\* len(s.split()): the number of maximal runs of characters that are no
\* whitespace
WordCount(s) ==
    Cardinality({ i \in 1..Len(s) :
                      s[i] \notin Whitespace /\ (i = 1 \/ s[i - 1] \in Whitespace) })

\* lines 86-91
exhaustive_keywords ==
    << <<"e", "t", "s", "i">>,
       <<"h", "a", "e">>,
       <<"l", "ö", "y", "d", "ä">>,
       <<"k", "a", "i", "k", "k", "i">>,
       <<"k", "a", "i", "k", "k", "i", "a">>,
       <<"s", "e", "a", "r", "c", "h">>,
       <<"f", "i", "n", "d">>,
       <<"a", "l", "l">>,
       <<"e", "v", "e", "r", "y">>,
       <<"e", "a", "c", "h">>,
       <<"l", "i", "s", "t", "a", "a">>,
       <<"l", "u", "e", "t", "t", "e", "l", "e">>,
       <<"k", "e", "r", "r", "o", " ", "k", "a", "i", "k", "k", "i">>,
       <<"m", "i", "t", "k", "ä", " ", "k", "a", "i", "k", "k", "i">>,
       <<"m", "i", "t", "ä", " ", "k", "a", "i", "k", "k", "e", "a">> >>

\* line 106
question_markers ==
    << <<"?">>,
       <<"j", "a">>,
       <<"s", "e", "k", "ä">>,
       <<"m", "y", "ö", "s">>,
       <<"l", "i", "s", "ä", "k", "s", "i">>,
       <<"a", "n", "d">>,
       <<"a", "l", "s", "o">> >>

\* lines 114-118
comparative_keywords ==
    << <<"v", "e", "r", "t", "a", "a">>,
       <<"v", "e", "r", "t", "a", "i", "l", "e">>,
       <<"e", "r", "o">>,
       <<"e", "r", "o", "t">>,
       <<"e", "r", "o", "a">>,
       <<"c", "o", "m", "p", "a", "r", "e">>,
       <<"d", "i", "f", "f", "e", "r", "e", "n", "c", "e">>,
       <<"y", "h", "t", "e", "e", "n", "v", "e", "t", "o">>,
       <<"s", "u", "m", "m", "a", "r", "y">>,
       <<"k", "o", "k", "o", "n", "a", "i", "s", "k", "u", "v", "a">>,
       <<"o", "v", "e", "r", "v", "i", "e", "w">> >>

\* lines 123-127
specific_keywords ==
    << <<"m", "i", "k", "ä", " ", "o", "n">>,
       <<"k", "u", "k", "a", " ", "o", "n">>,
       <<"m", "i", "l", "l", "o", "i", "n">>,
       <<"m", "i", "s", "s", "ä">>,
       <<"w", "h", "a", "t", " ", "i", "s">>,
       <<"w", "h", "o", " ", "i", "s">>,
       <<"w", "h", "e", "n">>,
       <<"w", "h", "e", "r", "e">>,
       <<"m", "ä", "ä", "r", "i", "t", "t", "e", "l", "e">>,
       <<"d", "e", "f", "i", "n", "e">> >>

\* the base value whatever the query holds
BaseTopK_NoExhaustive(query_lower) == 6

\* lines 83 and 92-94: base value, or the maximum for an exhaustive search
BaseTopK(query_lower) ==
    IF ContainsAny(query_lower, exhaustive_keywords) THEN 20 ELSE 6

\* lines 97-103
WordCountAdjust(top_k, n) ==
    IF n > 20 THEN top_k + 3
    ELSE IF n > 10 THEN top_k + 2
    ELSE IF n < 5 THEN Max(top_k - 1, 4)
    ELSE top_k

\* line 107: sum(1 for marker in question_markers if marker in query_lower)
QuestionCount(query_lower) ==
    Cardinality({ n \in 1..Len(question_markers) :
                      Contains(query_lower, question_markers[n]) })

\* lines 108-111
QuestionAdjust(top_k, question_count) ==
    IF question_count > 2 THEN top_k + 3
    ELSE IF question_count > 1 THEN top_k + 2
    ELSE top_k

\* lines 119-120
ComparativeAdjust(top_k, query_lower) ==
    IF ContainsAny(query_lower, comparative_keywords) THEN top_k + 4 ELSE top_k

\* lines 128-129
SpecificAdjust(top_k, query_lower) ==
    IF ContainsAny(query_lower, specific_keywords) THEN Max(top_k - 2, 4) ELSE top_k

\* the final clamp left out
ClampTopK_None(top_k) == top_k

\* line 132
ClampTopK(top_k) == Max(4, Min(20, top_k))

calculate_dynamic_top_k(q) ==
    LET query_lower == lower(q)
        words == WordCount(q)
    IN ClampTopK(
           SpecificAdjust(
               ComparativeAdjust(
                   QuestionAdjust(
                       WordCountAdjust(BaseTopK(query_lower), words),
                       QuestionCount(query_lower)),
                   query_lower),
               query_lower))

-----------------------------------------------------------------------------
(* Query strings the estimator is applied to *)

\* words and phrases a query is made of: markers of every rule, a keyword
\* hidden inside a longer word ("ero" in "numero"), an upper-case letter,
\* a marker written with the Kelvin sign and an accented capital, five
\* words separated by tab, line feed, no-break space and carriage return
Phrases ==
    << <<"e", "t", "s", "i">>,
       <<"k", "a", "i", "k", "k", "i">>,
       <<"U+212A", "A", "I", "K", "K", "I", " ", "É">>,
       <<"x", "\t", "x", "\n", "x", " ", "x", "\r", "x">>,
       <<"k", "o", "k", "o", "u", "k", "s", "e", "t">>,
       <<"n", "u", "m", "e", "r", "o">>,
       <<"W", "h", "e", "n">>,
       <<"j", "a">>,
       <<"a", "l", "s", "o", "?">>,
       <<"m", "i", "k", "ä", " ", "o", "n">> >>

\* s1 + " " + s2, without the blank when one of them is empty
JoinBlank(s1, s2) ==
    IF s1 = <<>> THEN s2 ELSE IF s2 = <<>> THEN s1 ELSE s1 \o <<" ">> \o s2

RECURSIVE JoinPhrases(_)
JoinPhrases(idx) ==
    IF idx = <<>> THEN <<>>
    ELSE JoinBlank(Phrases[idx[1]], JoinPhrases(Tail(idx)))

\* n filler words
RECURSIVE Filler(_)
Filler(n) == IF n = 0 THEN <<>> ELSE JoinBlank(<<"x">>, Filler(n - 1))

\* numbers of filler words: none, and enough for each word-count class
FillerCounts == {0, 3, 10, MaxFillerWords}

\* sequences of at most MaxPhrases different phrases
PhraseChoices ==
    { idx \in SeqsUpTo(1..Len(Phrases), MaxPhrases) :
          \A i, j \in 1..Len(idx) : i # j => idx[i] # idx[j] }

Queries ==
    { JoinBlank(JoinPhrases(idx), Filler(n)) : idx \in PhraseChoices, n \in FillerCounts }

\* no search_iteratively run in this behaviour
AgentIdle ==
    /\ max_iterations = 0
    /\ confidence_threshold = DefaultConfidenceThreshold
    /\ max_sources = 1
    /\ initial_candidates = MaxCandidates
    /\ pc = "idle"
    /\ all_sources = <<>>
    /\ iterations = <<>>
    /\ current_query = OriginalQuery
    /\ iteration = 0
    /\ candidates = <<>>
    /\ reranked = Unbound
    /\ assessment_result = Unbound
    /\ result = Unbound
    /\ reranker_called = Unbound
    /\ assessor_called = Unbound
    /\ followup_called = Unbound

-----------------------------------------------------------------------------
(* One call of _assess_completeness on a list of n sources *)

SourceList(n) == [i \in 1..n |-> [chunk_id |-> i, text |-> <<"a">>]]

InitAssess ==
    /\ assess_sources \in { SourceList(n) : n \in 0..MaxAssessSources }
    /\ assess_llm \in AssessorLLMOutcomes
    /\ assess_result = Unbound

AssessIdle ==
    /\ assess_sources = <<>>
    /\ assess_llm = LLMOutcome(TRUE, <<>>, EmptyPayload)
    /\ assess_result = Unbound

AssessCall ==
    /\ ~assess_result.bound
    /\ assess_result' =
           Bound(_assess_completeness(OriginalQuery, assess_sources, 1, assess_llm))
    /\ UNCHANGED <<agentVars, topkVars, callVars, assess_sources, assess_llm>>

-----------------------------------------------------------------------------
(* One call of calculate_dynamic_top_k *)

InitTopK ==
    /\ request_query \in Queries
    /\ estimated_top_k = Unbound

TopKIdle ==
    /\ request_query = <<>>
    /\ estimated_top_k = Unbound

TopKCall ==
    /\ ~estimated_top_k.bound
    /\ estimated_top_k' = Bound(calculate_dynamic_top_k(request_query))
    /\ UNCHANGED <<agentVars, assessVars, callVars, request_query>>

-----------------------------------------------------------------------------
(* HybridRetriever._reciprocal_rank_fusion, app/retrieval/hybrid.py *)

\* the default of the parameter k; no caller passes another value
RRFConstant == 60

FusedIds == 1..NumFusedIds

\* A ranked backend result: rows with pairwise distinct chunk_id (one row of
\* embeddings / documents_fts per chunk), at most one row per indexed chunk
RankedLists ==
    { r \in SeqsUpTo([chunk_id : FusedIds], NumFusedIds) : DistinctIds(r) }

\* the chunk ids of a list of rows, in the order of the list
FusedIdsOf(rows) == [i \in 1..Len(rows) |-> rows[i].chunk_id]

\* A score is a rational: it is stored as an integer number of 1/RRFDen(k),
\* RRFDen(k) being a common multiple of k + rank for every rank of a list
RECURSIVE RankProduct(_, _)
RankProduct(k, n) == IF n = 0 THEN 1 ELSE (k + n) * RankProduct(k, n - 1)

RRFDen(k) == RankProduct(k, NumFusedIds)

\* ranks counted from 0
RankTerm_ZeroBased(k, rank) == RRFDen(k) \div (k + rank - 1)

\* 1 / (k + rank)
RankTerm(k, rank) == RRFDen(k) \div (k + rank)

\* rrf_scores[chunk_id] = term: the term of the last list replaces the sum
AddScore_Replace(rrf_scores, chunk_id, term) ==
    IF \E i \in 1..Len(rrf_scores) : rrf_scores[i].chunk_id = chunk_id
    THEN [i \in 1..Len(rrf_scores) |->
             IF rrf_scores[i].chunk_id = chunk_id
             THEN [chunk_id |-> chunk_id, rrf_score |-> term]
             ELSE rrf_scores[i]]
    ELSE Append(rrf_scores, [chunk_id |-> chunk_id, rrf_score |-> term])

\* rrf_scores[chunk_id] = rrf_scores.get(chunk_id, 0) + term on a dict that
\* keeps insertion order: a known key keeps its place
AddScore(rrf_scores, chunk_id, term) ==
    IF \E i \in 1..Len(rrf_scores) : rrf_scores[i].chunk_id = chunk_id
    THEN [i \in 1..Len(rrf_scores) |->
             IF rrf_scores[i].chunk_id = chunk_id
             THEN [chunk_id |-> chunk_id, rrf_score |-> rrf_scores[i].rrf_score + term]
             ELSE rrf_scores[i]]
    ELSE Append(rrf_scores, [chunk_id |-> chunk_id, rrf_score |-> term])

\* for rank, result in enumerate(results, start=1): ... (lines 170-177)
RECURSIVE AddRanked(_, _, _, _)
AddRanked(rrf_scores, results, n, k) ==
    IF n = 0 THEN rrf_scores
    ELSE AddScore(AddRanked(rrf_scores, results, n - 1, k),
                  results[n].chunk_id, RankTerm(k, n))

\* equal scores come out in reverse insertion order
RECURSIVE InsertByRRF_TiesReversed(_, _)
InsertByRRF_TiesReversed(sorted, item) ==
    IF sorted = <<>> THEN <<item>>
    ELSE IF sorted[Len(sorted)].rrf_score > item.rrf_score
         THEN Append(sorted, item)
         ELSE Append(InsertByRRF_TiesReversed(SubSeq(sorted, 1, Len(sorted) - 1), item),
                     sorted[Len(sorted)])

\* sorted(..., key=score, reverse=True): descending, equal scores keep
\* their order
RECURSIVE InsertByRRF(_, _)
InsertByRRF(sorted, item) ==
    IF sorted = <<>> THEN <<item>>
    ELSE IF sorted[Len(sorted)].rrf_score >= item.rrf_score
         THEN Append(sorted, item)
         ELSE Append(InsertByRRF(SubSeq(sorted, 1, Len(sorted) - 1), item),
                     sorted[Len(sorted)])

RECURSIVE SortByRRFDesc(_)
SortByRRFDesc(items) ==
    IF items = <<>> THEN <<>>
    ELSE InsertByRRF(SortByRRFDesc(SubSeq(items, 1, Len(items) - 1)),
                     items[Len(items)])

\* the [:top_k] of line 184 left out
CutToTopK_None(items, top_k) == items

\* [:top_k] of line 184
CutToTopK(items, top_k) == Take(items, top_k)

_reciprocal_rank_fusion(vector_results, bm25_results, top_k, k) ==
    LET after_vector == AddRanked(<<>>, vector_results, Len(vector_results), k)
        rrf_scores == AddRanked(after_vector, bm25_results, Len(bm25_results), k)
    IN CutToTopK(SortByRRFDesc(rrf_scores), top_k)

-----------------------------------------------------------------------------
(* HybridRetriever.search and the services it uses *)

\* What a backend query does: the rows the database would rank for the
\* query, and whether connecting and querying works (ok) or raises (~ok)
BackendOutcomes ==
    { [ok |-> TRUE, ranking |-> r] : r \in RankedLists }
        \cup { [ok |-> FALSE, ranking |-> r] : r \in { x \in RankedLists : Len(x) <= 1 } }

\* the text the chunks table holds for every chunk
StoredText == <<"a">>

\* What the chunks/documents query does: it raises (~ok), or it returns the
\* rows of the requested ids that still exist: all of them, all but one, none
DetailOutcomes ==
    { [ok |-> FALSE, existing |-> FusedIds, text |-> StoredText] }
        \cup { [ok |-> TRUE, existing |-> FusedIds \ {id}, text |-> StoredText] :
                  id \in FusedIds }
        \cup { [ok |-> TRUE, existing |-> FusedIds, text |-> StoredText],
               [ok |-> TRUE, existing |-> {}, text |-> StoredText] }

\* the document a chunk belongs to: two chunks per document
DocumentOf(chunk_id) == (chunk_id + 1) \div 2

\* lines 69-93: LIMIT top_k rows in database order, [] on any exception
_vector_search(db, top_k) ==
    IF db.ok THEN Take(db.ranking, top_k) ELSE <<>>

\* a failing query still hands over rows
_bm25_search_NotEmptyOnFailure(db, top_k) == Take(db.ranking, top_k)

\* lines 110-138: LIMIT top_k rows in database order, [] on any exception
_bm25_search(db, top_k) ==
    IF db.ok THEN Take(db.ranking, top_k) ELSE <<>>

\* lines 238-246: the results whose id has a row, in the order of results,
\* each with the fused score as 'score'
RECURSIVE MergeDetails(_, _)
MergeDetails(results, details) ==
    IF results = <<>> THEN <<>>
    ELSE LET rest == MergeDetails(SubSeq(results, 1, Len(results) - 1), details)
             last == results[Len(results)]
         IN IF last.chunk_id \in details.existing
            THEN Append(rest, [chunk_id |-> last.chunk_id,
                               text |-> details.text,
                               document_id |-> DocumentOf(last.chunk_id),
                               score |-> last.rrf_score])
            ELSE rest

\* the except branch keeps the ids and leaves the details out
_fetch_chunk_details_KeepOnFailure(results, details) ==
    IF results = <<>> THEN <<>>
    ELSE MergeDetails(results, details)

_fetch_chunk_details(results, details) ==
    IF results = <<>> THEN <<>>
    ELSE IF details.ok THEN MergeDetails(results, details)
    ELSE <<>>

\* the backends are asked for top_k rows
BackendLimit_Single(top_k) == top_k

\* top_k * 2, lines 37 and 40
BackendLimit(top_k) == top_k * 2

\* env is what the services do during the call: the embedding call
\* (embed_ok), the two backend queries and the details query.  The
\* embedding call of line 34 is outside every try: its exception leaves
\* search.
search(env, top_k) ==
    IF ~env.embed_ok THEN [raised |-> TRUE, value |-> <<>>]
    ELSE LET vector_results == _vector_search(env.vector, BackendLimit(top_k))
             bm25_results == _bm25_search(env.bm25, BackendLimit(top_k))
             combined_results ==
                 _reciprocal_rank_fusion(vector_results, bm25_results, top_k, RRFConstant)
         IN [raised |-> FALSE,
             value |-> _fetch_chunk_details(combined_results, env.details)]

SearchEnvs ==
    { [embed_ok |-> TRUE, vector |-> v, bm25 |-> b, details |-> d] :
          v \in BackendOutcomes, b \in BackendOutcomes, d \in DetailOutcomes }
        \cup { [embed_ok |-> FALSE,
                vector |-> [ok |-> TRUE, ranking |-> <<>>],
                bm25 |-> [ok |-> TRUE, ranking |-> <<>>],
                details |-> [ok |-> TRUE, existing |-> FusedIds, text |-> StoredText]] }

InitSearch ==
    /\ search_call \in
           { Bound([query |-> OriginalQuery, top_k |-> n, env |-> e]) :
                 n \in 0..MaxSearchTopK, e \in SearchEnvs }
    /\ search_returned = Unbound

SearchCall ==
    /\ search_call.bound
    /\ ~search_returned.bound
    /\ search_returned' = Bound(search(search_call.value.env, search_call.value.top_k))
    /\ UNCHANGED <<agentVars, otherVars, assessVars, topkVars, rerankVars, rrfVars,
                   search_call, docsearchVars, sourcesVars, askVars, researchVars>>

-----------------------------------------------------------------------------
(* HybridRetriever.document_search *)

\* lines 287-304: group the chunks by document in a dict that keeps
\* insertion order; best_score is raised by a chunk with a higher score
AddToDocs(docs, c) ==
    IF \E i \in 1..Len(docs) : docs[i].document_id = c.document_id
    THEN [i \in 1..Len(docs) |->
             IF docs[i].document_id = c.document_id
             THEN [document_id |-> docs[i].document_id,
                   best_score |-> IF c.score > docs[i].best_score
                                  THEN c.score ELSE docs[i].best_score,
                   matched_chunks |-> Append(docs[i].matched_chunks, c)]
             ELSE docs[i]]
    ELSE Append(docs, [document_id |-> c.document_id,
                       best_score |-> c.score,
                       matched_chunks |-> <<c>>])

RECURSIVE AggregateDocs(_)
AggregateDocs(chunk_details) ==
    IF chunk_details = <<>> THEN <<>>
    ELSE AddToDocs(AggregateDocs(SubSeq(chunk_details, 1, Len(chunk_details) - 1)),
                   chunk_details[Len(chunk_details)])

\* line 307: sorted(docs.values(), key=best_score, reverse=True)
RECURSIVE InsertByBestScore(_, _)
InsertByBestScore(sorted, doc) ==
    IF sorted = <<>> THEN <<doc>>
    ELSE IF sorted[Len(sorted)].best_score >= doc.best_score
         THEN Append(sorted, doc)
         ELSE Append(InsertByBestScore(SubSeq(sorted, 1, Len(sorted) - 1), doc),
                     sorted[Len(sorted)])

RECURSIVE SortByBestScoreDesc(_)
SortByBestScoreDesc(docs) ==
    IF docs = <<>> THEN <<>>
    ELSE InsertByBestScore(SortByBestScoreDesc(SubSeq(docs, 1, Len(docs) - 1)),
                           docs[Len(docs)])

\* the list is cut to top_docs whatever top_docs is
CutToTopDocs_Always(sorted_docs, top_docs) == Take(sorted_docs, top_docs)

\* lines 309-310: if top_docs and top_docs > 0
CutToTopDocs(sorted_docs, top_docs) ==
    IF top_docs # 0 /\ top_docs > 0 THEN Take(sorted_docs, top_docs) ELSE sorted_docs

\* an exception of the embedding call is caught (lines 269-272) and leaves
\* the vector results empty
document_search(env, max_chunks, top_docs) ==
    LET vector_results == IF env.embed_ok THEN _vector_search(env.vector, max_chunks)
                                          ELSE <<>>
        bm25_results == _bm25_search(env.bm25, max_chunks)
        combined == _reciprocal_rank_fusion(vector_results, bm25_results,
                                            max_chunks, RRFConstant)
        chunk_details == _fetch_chunk_details(combined, env.details)
    IN CutToTopDocs(SortByBestScoreDesc(AggregateDocs(chunk_details)), top_docs)

\* the vector backend ranks any list, the lexical backend up to two rows, or
\* they fail; the details query fails, resolves every id or all but chunk 1;
\* the embedding call fails with every chunk resolvable
DocSearchBackends(longest) ==
    { x \in BackendOutcomes : (x.ok /\ Len(x.ranking) <= longest) \/ x.ranking = <<>> }

DocSearchEnvs ==
    { [embed_ok |-> TRUE, vector |-> v, bm25 |-> b, details |-> d] :
          v \in DocSearchBackends(NumFusedIds),
          b \in DocSearchBackends(2),
          d \in { x \in DetailOutcomes : ~x.ok \/ FusedIds \ {1} \subseteq x.existing } }
        \cup { [embed_ok |-> FALSE, vector |-> v, bm25 |-> b,
                details |-> [ok |-> TRUE, existing |-> FusedIds, text |-> StoredText]] :
                  v \in { x \in DocSearchBackends(NumFusedIds) : x.ok },
                  b \in { x \in DocSearchBackends(2) : x.ok } }

InitDocSearch ==
    /\ docsearch_call \in
           { Bound([query |-> OriginalQuery, max_chunks |-> NumFusedIds,
                    top_docs |-> n, env |-> e]) :
                 n \in 0..MaxTopDocs, e \in DocSearchEnvs }
    /\ docsearch_returned = Unbound

DocSearchCall ==
    /\ docsearch_call.bound
    /\ ~docsearch_returned.bound
    /\ docsearch_returned' =
           Bound(document_search(docsearch_call.value.env,
                                 docsearch_call.value.max_chunks,
                                 docsearch_call.value.top_docs))
    /\ UNCHANGED <<agentVars, otherVars, assessVars, topkVars, rerankVars, rrfVars,
                   searchVars, docsearch_call, sourcesVars, askVars, researchVars>>

-----------------------------------------------------------------------------
(* One call of _reciprocal_rank_fusion *)

InitRRF ==
    /\ rrf_call \in
           { Bound([vector_results |-> v, bm25_results |-> b, top_k |-> n, k |-> RRFConstant]) :
                 v \in RankedLists, b \in RankedLists, n \in 0..MaxFusionTopK }
    /\ rrf_returned = Unbound

RRFCall ==
    /\ rrf_call.bound
    /\ ~rrf_returned.bound
    /\ rrf_returned' =
           Bound(_reciprocal_rank_fusion(rrf_call.value.vector_results,
                                         rrf_call.value.bm25_results,
                                         rrf_call.value.top_k, rrf_call.value.k))
    /\ UNCHANGED <<agentVars, otherVars, assessVars, topkVars, rerankVars, rrf_call,
                   searchVars, docsearchVars, sourcesVars, askVars, researchVars>>

-----------------------------------------------------------------------------
(* One call of BGEReranker.rerank *)

\* what self.model.predict can answer for n pairs: n scores, one score too
\* few or one too many, or an exception
PredictOutcomes(n) ==
    { [ok |-> TRUE, scores |-> sc] :
          sc \in UNION { [1..k -> {0, 1}] : k \in {n, n + 1} \cup ({n - 1} \cap Nat) } }
        \cup { [ok |-> FALSE, scores |-> <<>>] }

\* rerank(query, documents, top_k) with what self.model.predict does
InitRerank ==
    /\ \E d \in SeqsUpTo(Chunks, MaxRerankDocs), n \in 0..MaxRerankTopK :
           \E sc \in PredictOutcomes(Len(d)) :
               rerank_call = Bound([query |-> OriginalQuery, documents |-> d,
                                    top_k |-> n, scorer |-> sc])
    /\ rerank_returned = Unbound

RerankCall ==
    /\ rerank_call.bound
    /\ ~rerank_returned.bound
    /\ rerank_returned' =
           Bound(rerank(rerank_call.value.query, rerank_call.value.documents,
                        rerank_call.value.top_k, rerank_call.value.scorer))
    /\ UNCHANGED <<agentVars, otherVars, assessVars, topkVars, rerank_call, rrfVars,
                   searchVars, docsearchVars, sourcesVars, askVars, researchVars>>

-----------------------------------------------------------------------------
(* The sources of a response: /ask, /ask-iterative, /research *)

\* chunk['text'][:200]
ExtractSnippetChars == 200

\* LLMService._extract_sources, the sources of /ask
_extract_sources(chunks) ==
    [i \in 1..Len(chunks) |->
        [chunk_id |-> chunks[i].chunk_id,
         snippet |-> IF Len(chunks[i].text) > ExtractSnippetChars
                     THEN Take(chunks[i].text, ExtractSnippetChars) \o <<".", ".", ".">>
                     ELSE Take(chunks[i].text, ExtractSnippetChars)]]

\* doc['text'][:150]
ResearchSnippetChars == 150

\* deep_research, lines 530-548: the sources of /research (all_sources in
\* insertion order; the chunks of one reranked list have distinct ids)
ResearchSources(docs) ==
    [i \in 1..Len(docs) |->
        [chunk_id |-> docs[i].chunk_id,
         snippet |-> IF Len(docs[i].text) > ResearchSnippetChars
                     THEN Take(docs[i].text, ResearchSnippetChars) \o <<".", ".", ".">>
                     ELSE Take(docs[i].text, ResearchSnippetChars)]]

Endpoints == {"ask", "ask-iterative", "research"}

Digits == <<"0", "1", "2", "3", "4", "5", "6", "7", "8", "9">>

\* a text of n characters in which neighbouring characters differ
TextOfLen(n) == [i \in 1..n |-> Digits[(i % 10) + 1]]

InitSources ==
    /\ sources_call \in
           { Bound([endpoint |-> e,
                    chunks |-> <<[chunk_id |-> 1, text |-> TextOfLen(n)]>>]) :
                 e \in Endpoints, n \in 0..MaxTextLen }
    /\ sources_returned = Unbound

SourcesCall ==
    /\ sources_call.bound
    /\ ~sources_returned.bound
    /\ sources_returned' =
           Bound(CASE sources_call.value.endpoint = "ask" ->
                          _extract_sources(sources_call.value.chunks)
                   [] sources_call.value.endpoint = "ask-iterative" ->
                          _format_sources(sources_call.value.chunks)
                   [] sources_call.value.endpoint = "research" ->
                          ResearchSources(sources_call.value.chunks))
    /\ UNCHANGED <<agentVars, otherVars, assessVars, topkVars, rerankVars, rrfVars,
                   searchVars, docsearchVars, sources_call, askVars, researchVars>>

-----------------------------------------------------------------------------
(* What the services do during one retriever.search of an endpoint *)

\* the embedding call fails; or the vector query ranks nothing, chunk 1 or
\* chunks 1, 2, or fails; the lexical query ranks nothing or chunk 2, or
\* fails; the details query fails, resolves every id or resolves none
ServiceOutcomes ==
    { e \in SearchEnvs :
          /\ FusedIdsOf(e.vector.ranking) \in {<<>>, <<1>>, <<1, 2>>}
          /\ ~e.vector.ok => e.vector.ranking = <<>>
          /\ FusedIdsOf(e.bm25.ranking) \in {<<>>, <<2>>}
          /\ ~e.bm25.ok => e.bm25.ranking = <<>>
          /\ e.details.existing \in {FusedIds, {}}
          /\ ~e.details.ok => e.details.existing = FusedIds }

-----------------------------------------------------------------------------
(* ask_question, POST /ask, app/main.py *)

\* settings.topk_candidates, app/config.py
topk_candidates == 50

\* num_candidates of an exhaustive search
ExhaustiveCandidates == 100

NoAnswer == "En löytänyt relevanttia tietoa annetusta kysymyksestä."

\* the queries the request is searched with: the original one alone, or with
\* the variations of multi-query expansion and HyDE (lines 322-331)
AskQueryCounts == {1, 2}

\* lines 340-345: the first candidate of every chunk_id, in order
RECURSIVE DedupByChunkId(_)
DedupByChunkId(all_candidates) ==
    IF all_candidates = <<>> THEN <<>>
    ELSE LET unique == DedupByChunkId(SubSeq(all_candidates, 1, Len(all_candidates) - 1))
             cand == all_candidates[Len(all_candidates)]
         IN IF cand.chunk_id \in IdsOf(unique) THEN unique ELSE Append(unique, cand)

RECURSIVE Extend(_, _)
Extend(searches, n) ==
    IF n = 0 THEN <<>> ELSE Extend(searches, n - 1) \o searches[n].value

\* request: query and top_k (Unbound for None); envs: what the services do
\* during the search of each query; scorer: what the cross-encoder does;
\* llm: what the provider does when the answer is generated.  An exception
\* anywhere in the handler becomes the HTTP 500 of lines 377-379.
ask_question(request, envs, scorer, llm) ==
    LET top_k == IF request.top_k.bound THEN request.top_k.value
                 ELSE calculate_dynamic_top_k(request.query)
        is_exhaustive == ContainsAny(lower(request.query), exhaustive_keywords)
        num_candidates == IF is_exhaustive THEN ExhaustiveCandidates ELSE topk_candidates
        searches == [i \in 1..Len(envs) |-> search(envs[i], num_candidates)]
        all_candidates == Extend(searches, Len(searches))
        unique_candidates == DedupByChunkId(all_candidates)
        reranked_chunks == IF unique_candidates # <<>>
                    THEN rerank(request.query, unique_candidates, top_k,
                                predict(scorer, unique_candidates))
                    ELSE <<>>
    IN IF \E i \in 1..Len(searches) : searches[i].raised
       THEN [status |-> 500, answer |-> "", sources |-> <<>>, all_candidates |-> <<>>]
       ELSE IF reranked_chunks = <<>>
       THEN [status |-> 200, answer |-> NoAnswer, sources |-> <<>>,
             all_candidates |-> all_candidates]
       ELSE [status |-> 200, answer |-> generate(llm).value,
             sources |-> _extract_sources(reranked_chunks),
             all_candidates |-> all_candidates]

AskRequests ==
    { [query |-> q, top_k |-> k] :
          q \in { <<"q">>, <<"a", "l", "l">> },
          k \in {Unbound} \cup { Bound(n) : n \in 0..MaxAskTopK } }

InitAsk ==
    /\ ask_call \in
           { Bound([request |-> r, envs |-> e, scorer |-> sc, llm |-> l]) :
                 r \in AskRequests,
                 e \in UNION { [1..n -> ServiceOutcomes] : n \in AskQueryCounts },
                 sc \in Scorers,
                 l \in AnswerLLMOutcomes }
    /\ ask_response = Unbound

AskCall ==
    /\ ask_call.bound
    /\ ~ask_response.bound
    /\ ask_response' =
           Bound(ask_question(ask_call.value.request, ask_call.value.envs,
                              ask_call.value.scorer, ask_call.value.llm))
    /\ UNCHANGED <<agentVars, otherVars, assessVars, topkVars, rerankVars, rrfVars,
                   searchVars, docsearchVars, sourcesVars, ask_call, researchVars>>

-----------------------------------------------------------------------------
(* deep_research, POST /research, app/main.py *)

ResearchPlaceholder == <<"Ei löytynyt relevanttia tietoa tähän kysymykseen.">>

\* sub_questions[:5]
ResearchSubQuestionLimit == 5

\* min(5, top_k) of the rerank call
ResearchRerankLimit == 5

JsonNull == [kind |-> "null"]
JsonText(v) == [kind |-> "string", chars |-> v]

\* dict.get(key, default) on a parsed object
DictGet(dict, key, default) ==
    IF key \in DOMAIN dict /\ dict[key].kind # "absent" THEN dict[key] ELSE default

\* str.split('\n')
RECURSIVE SplitLines(_)
SplitLines(s) ==
    IF find(s, "\n") = -1 THEN <<s>>
    ELSE <<Slice(s, 0, find(s, "\n"))>> \o SplitLines(SubSeq(s, find(s, "\n") + 2, Len(s)))

\* line 487: the lines that are not all whitespace and hold a "?" or more
\* than three words, after strip(), strip('"') and strip("'")
RECURSIVE QuestionLines(_)
QuestionLines(lines) ==
    IF lines = <<>> THEN <<>>
    ELSE LET q == lines[1]
         IN IF Strip(q, Whitespace) # <<>>
                   /\ ((\E i \in 1..Len(q) : q[i] = "?") \/ WordCount(q) > 3)
            THEN <<Strip(Strip(Strip(q, Whitespace), {"\""}), {"'"})>>
                     \o QuestionLines(Tail(lines))
            ELSE QuestionLines(Tail(lines))

\* line 488: not q.startswith('{') and not q.startswith('[')
RECURSIVE WithoutJsonLines(_)
WithoutJsonLines(qs) ==
    IF qs = <<>> THEN <<>>
    ELSE IF qs[1] # <<>> /\ qs[1][1] \in {"{", "["}
         THEN WithoutJsonLines(Tail(qs))
         ELSE <<qs[1]>> \o WithoutJsonLines(Tail(qs))

\* lines 474-488: the value of "sub_questions" in the object between the
\* first "{" and the last "}", [] when the object has no such member; the
\* question-like lines of the text when there is no such object
ParseSubQuestions(decomposition_result, payload) ==
    LET start_idx == find(decomposition_result, "{")
        end_idx == rfind(decomposition_result, "}") + 1
        parsed == json_loads(Slice(decomposition_result, start_idx, end_idx), payload)
    IN IF start_idx >= 0 /\ end_idx > start_idx /\ parsed.ok
       THEN DictGet(parsed.dict, "sub_questions", JsonList(<<>>))
       ELSE JsonList(WithoutJsonLines(QuestionLines(SplitLines(decomposition_result))))

\* bool(value) of Python
Truthy(v) ==
    CASE v.kind = "list" -> v.items # <<>>
      [] v.kind = "string" -> v.chars # <<>>
      [] v.kind = "number" -> v.value # 0
      [] v.kind = "bool" -> v.truth
      [] OTHER -> FALSE

\* lines 490-494: the original query when the value is empty, then [:5]; a
\* list is cut, a string is cut and read character by character by the
\* loop, any other value cannot be sliced (TypeError)
SubQuestionsOf(q, v) ==
    IF ~Truthy(v)
    THEN [raised |-> FALSE, value |-> Take(<<q>>, ResearchSubQuestionLimit)]
    ELSE IF v.kind = "list"
    THEN [raised |-> FALSE, value |-> Take(v.items, ResearchSubQuestionLimit)]
    ELSE IF v.kind = "string"
    THEN [raised |-> FALSE,
          value |-> Take([i \in 1..Len(v.chars) |-> <<v.chars[i]>>],
                         ResearchSubQuestionLimit)]
    ELSE [raised |-> TRUE, value |-> <<>>]

\* lines 469-494
Decompose(q, llm) ==
    SubQuestionsOf(q, ParseSubQuestions(generate(llm).value, llm.payload))

\* one pass of the loop, lines 501-568; raised when retriever.search raises
ResearchStep(sub_q, env, scorer, llm, top_k) ==
    LET found == search(env, topk_candidates)
        reranked_docs == rerank(sub_q, found.value, Min(ResearchRerankLimit, top_k),
                                predict(scorer, found.value))
        placeholder == [question |-> sub_q, answer |-> ResearchPlaceholder,
                        source_ids |-> <<>>]
    IN IF found.raised
       THEN [raised |-> TRUE, docs |-> <<>>, sub_answer |-> placeholder]
       ELSE IF found.value = <<>>
       THEN [raised |-> FALSE, docs |-> <<>>, sub_answer |-> placeholder]
       ELSE IF reranked_docs = <<>>
       THEN [raised |-> FALSE, docs |-> <<>>, sub_answer |-> placeholder]
       ELSE [raised |-> FALSE, docs |-> reranked_docs,
             sub_answer |-> [question |-> sub_q,
                             answer |-> Strip(generate(llm).value, Whitespace),
                             source_ids |-> FusedIdsOf(reranked_docs)]]

\* all_sources[chunk_id] = {...} without the membership test: a known key
\* keeps its place and takes the new entry
RECURSIVE StoreSources_Overwrite(_, _)
StoreSources_Overwrite(source_map, docs) ==
    IF docs = <<>> THEN source_map
    ELSE LET rest == StoreSources_Overwrite(source_map, SubSeq(docs, 1, Len(docs) - 1))
             entry == ResearchSources(<<docs[Len(docs)]>>)[1]
         IN IF entry.chunk_id \in IdsOf(rest)
            THEN [i \in 1..Len(rest) |->
                     IF rest[i].chunk_id = entry.chunk_id THEN entry ELSE rest[i]]
            ELSE Append(rest, entry)

\* lines 530-548: if chunk_id not in all_sources: all_sources[chunk_id] = {...}
RECURSIVE StoreSources(_, _)
StoreSources(source_map, docs) ==
    IF docs = <<>> THEN source_map
    ELSE LET rest == StoreSources(source_map, SubSeq(docs, 1, Len(docs) - 1))
             entry == ResearchSources(<<docs[Len(docs)]>>)[1]
         IN IF entry.chunk_id \in IdsOf(rest) THEN rest ELSE Append(rest, entry)

\* all_sources after the first n sub-questions
RECURSIVE SourceMapAfter(_, _)
SourceMapAfter(steps, n) ==
    IF n = 0 THEN <<>> ELSE StoreSources(SourceMapAfter(steps, n - 1), steps[n].docs)

\* request: query and top_k (Unbound for None); decomposition: what the
\* provider does when asked for the sub-questions; envs: what the services
\* do during the search of each sub-question; llm: what the provider does
\* when asked for the sub-answers and the synthesis.  An exception anywhere
\* in the handler becomes the HTTP 500 of lines 630-632.
deep_research(request, decomposition, envs, scorer, llm) ==
    LET top_k == IF request.top_k.bound /\ request.top_k.value # 0
                 THEN request.top_k.value
                 ELSE calculate_dynamic_top_k(request.query)
        sub_questions == Decompose(request.query, decomposition)
        steps == [i \in 1..Len(sub_questions.value) |->
                     ResearchStep(sub_questions.value[i], envs[i], scorer, llm, top_k)]
        sub_answers == [i \in 1..Len(steps) |-> steps[i].sub_answer]
    IN IF sub_questions.raised \/ \E i \in 1..Len(steps) : steps[i].raised
       THEN [status |-> 500, answer |-> <<>>, research_steps |-> <<>>,
             sources |-> <<>>, num_sub_questions |-> 0]
       ELSE [status |-> 200, answer |-> Strip(generate(llm).value, Whitespace),
             research_steps |-> sub_answers,
             sources |-> SourceMapAfter(steps, Len(steps)),
             num_sub_questions |-> Len(sub_questions.value)]

\* top_k absent, 0, or 1 (fewer than the chunks a search finds)
ResearchRequests ==
    { [query |-> <<"q">>, top_k |-> k] : k \in {Unbound, Bound(0), Bound(1)} }

\* provider outcomes of the sub-answer and synthesis calls
ResearchLLMOutcomes ==
    { LLMOutcome(TRUE, <<"\n", "answer", " ">>, EmptyPayload),
      LLMOutcome(FALSE, <<"timeout", "\n">>, EmptyPayload) }

\* n sub-questions "s1", "s2", ...
SubQuestionList(n) == [i \in 1..n |-> <<"s", Digits[i + 1]>>]

\* the same as lines of a text, each ending in a question mark
RECURSIVE SubQuestionText(_)
SubQuestionText(n) ==
    IF n = 0 THEN <<>>
    ELSE IF n = 1 THEN <<"s", Digits[2], "?">>
    ELSE SubQuestionText(n - 1) \o <<"\n", "s", Digits[n + 1], "?">>

\* what the decomposition answer can be: an object whose "sub_questions" is
\* a list of 0..MaxParsedSubQuestions strings, null, a number, true or a
\* string; an object inside prose or on lines of its own; an object without
\* the member; texts without an object: empty, a short line, a line of four
\* words, a line of three words after a free-standing quotation mark, a
\* quoted question, a blank line before a question, 1, 2 or
\* MaxParsedSubQuestions lines of questions, a line that starts with a
\* brace, braces around prose; or the provider fails
DecompositionOutcomes ==
    { LLMOutcome(TRUE, <<"{", "m", "}">>, [sub_questions |-> v]) :
          v \in { JsonList(SubQuestionList(n)) : n \in 0..MaxParsedSubQuestions }
                  \cup { JsonNull, JsonNumber(0), JsonNumber(3), JsonBool(TRUE),
                         JsonText(<<"a", "b">>) } }
        \cup { LLMOutcome(TRUE, t, [sub_questions |-> JsonList(SubQuestionList(2))]) :
                   t \in { <<"w", " ", "{", "m", "}", " ", "w">>,
                           <<"{", "\n", "m", "\n", "}">> } }
        \cup { LLMOutcome(TRUE, t, EmptyPayload) :
                   t \in { <<"{", "}">>, <<>>, <<"w">>,
                           <<"w", " ", "w", " ", "w", " ", "w">>,
                           <<"\"", " ", "w", " ", "w", " ", "w">>,
                           <<"\"", "s", "?", "\"">>, <<" ", "\n", "\t", "w", "?", " ">>,
                           <<"{", " ", "w", " ", "w", " ", "w", " ", "w">>,
                           <<"{", "w", "}">> }
                           \cup { SubQuestionText(n) : n \in {1, 2, MaxParsedSubQuestions} } }
        \cup { LLMOutcome(FALSE, <<"timeout">>, EmptyPayload) }

\* what the services do during the search of a sub-question: chunks 1 and 2
\* are found; chunk 1 alone is found and its text has changed; nothing is
\* found; the embedding call raises
ResearchOutcomes ==
    { [embed_ok |-> TRUE,
       vector |-> [ok |-> TRUE, ranking |-> <<[chunk_id |-> 1], [chunk_id |-> 2]>>],
       bm25 |-> [ok |-> TRUE, ranking |-> <<[chunk_id |-> 2]>>],
       details |-> [ok |-> TRUE, existing |-> FusedIds, text |-> StoredText]],
      [embed_ok |-> TRUE,
       vector |-> [ok |-> TRUE, ranking |-> <<[chunk_id |-> 1]>>],
       bm25 |-> [ok |-> TRUE, ranking |-> <<>>],
       details |-> [ok |-> TRUE, existing |-> FusedIds, text |-> <<"b">>]],
      [embed_ok |-> FALSE,
       vector |-> [ok |-> TRUE, ranking |-> <<>>],
       bm25 |-> [ok |-> TRUE, ranking |-> <<>>],
       details |-> [ok |-> TRUE, existing |-> FusedIds, text |-> StoredText]],
      [embed_ok |-> TRUE,
       vector |-> [ok |-> TRUE, ranking |-> <<>>],
       bm25 |-> [ok |-> TRUE, ranking |-> <<>>],
       details |-> [ok |-> TRUE, existing |-> FusedIds, text |-> StoredText]] }

InitResearch ==
    /\ research_call \in
           { Bound([request |-> r, decomposition |-> d, envs |-> e,
                    scorer |-> sc, llm |-> l]) :
                 r \in ResearchRequests,
                 d \in DecompositionOutcomes,
                 e \in UNION { [1..n -> ResearchOutcomes] :
                                   n \in 0..ResearchSubQuestionLimit },
                 sc \in Scorers,
                 l \in ResearchLLMOutcomes }
    /\ Len(research_call.value.envs)
           = Len(Decompose(research_call.value.request.query,
                           research_call.value.decomposition).value)
    /\ research_response = Unbound

ResearchCall ==
    /\ research_call.bound
    /\ ~research_response.bound
    /\ research_response' =
           Bound(deep_research(research_call.value.request,
                               research_call.value.decomposition,
                               research_call.value.envs, research_call.value.scorer,
                               research_call.value.llm))
    /\ UNCHANGED <<agentVars, otherVars, assessVars, topkVars, rerankVars, rrfVars,
                   searchVars, docsearchVars, sourcesVars, askVars, research_call>>

-----------------------------------------------------------------------------
(* One call of _broaden_query *)

\* the queries a run can start from: up to MaxBroadenWords words, some of
\* them equal to a broadening phrase
BroadenQueries ==
    { s \in SeqsUpTo({"q", " ", "kaikki"}, MaxBroadenWords) : s # <<>> }

InitBroaden ==
    /\ broaden_call \in
           { Bound([original_query |-> q, iteration |-> i]) :
                 q \in BroadenQueries, i \in 1..MaxBroadenIteration }
    /\ broaden_returned = Unbound

BroadenCall ==
    /\ broaden_call.bound
    /\ ~broaden_returned.bound
    /\ broaden_returned' = Bound(_broaden_query(broaden_call.value.original_query,
                                                broaden_call.value.iteration))
    /\ UNCHANGED <<agentVars, assessVars, topkVars, rerankVars, rrfVars, searchVars,
                   docsearchVars, sourcesVars, askVars, researchVars, broaden_call,
                   ingestVars>>

-----------------------------------------------------------------------------
(* One ingest job: start_ingest (app/main.py), ingest_folder_task (app/tasks.py) *)

\* What happens to a listed file: it is parsed, chunked and indexed; its
\* mime type is not supported; its text is empty after parsing; or a step
\* of its processing raises
FileOutcomes == {"indexed", "unsupported", "empty", "error"}

\* what list_files_recursive returns: a file id is the position in the list
FileLists == SeqsUpTo(FileOutcomes, MaxIngestFiles)

\* what indexer.index_chunks returns for a file that is indexed
ChunkCount == 2

\* the job row: no row yet; the columns that only the task writes are
\* Unbound until it writes them
NoJob ==
    [state |-> "absent", processed |-> Unbound, indexed |-> Unbound,
     errors |-> Unbound]

\* the task: not enqueued; the locals have no value before line 60
NoTask ==
    [pc |-> "none", files |-> <<>>, next |-> 0, processed |-> 0, indexed |-> 0,
     errors |-> <<>>, exception |-> ""]

\* What a statement with its commit does: it is applied; it raises and is
\* not applied; or it is applied and an exception follows before the with
\* block is left (commit() or the closing of the connection raises)
StatementOutcomes == {"applied", "raises", "applied then raises"}

InitIngest ==
    /\ ingest_job = NoJob
    /\ ingest_task = NoTask
    /\ ingest_handler = "none"
    /\ ingest_response = Unbound

\* the except branch that neither counts the file nor records the error
ProcessFile_ErrorDropped(task, outcome) ==
    CASE outcome = "unsupported" ->
             [task EXCEPT !.next = @ + 1]
      [] outcome = "empty" ->
             [task EXCEPT !.next = @ + 1, !.processed = @ + 1,
                          !.errors = Append(@, [file_id |-> task.next,
                                                error |-> "Empty text after parsing"])]
      [] outcome = "indexed" ->
             [task EXCEPT !.next = @ + 1, !.processed = @ + 1,
                          !.indexed = @ + ChunkCount]
      [] outcome = "error" ->
             [task EXCEPT !.next = @ + 1]

\* the body of the for loop, lines 66-120, for the file at position next
ProcessFile(task, outcome) ==
    CASE outcome = "unsupported" ->
             [task EXCEPT !.next = @ + 1]
      [] outcome = "empty" ->
             [task EXCEPT !.next = @ + 1, !.processed = @ + 1,
                          !.errors = Append(@, [file_id |-> task.next,
                                                error |-> "Empty text after parsing"])]
      [] outcome = "indexed" ->
             [task EXCEPT !.next = @ + 1, !.processed = @ + 1,
                          !.indexed = @ + ChunkCount]
      [] outcome = "error" ->
             [task EXCEPT !.next = @ + 1, !.processed = @ + 1,
                          !.errors = Append(@, [file_id |-> task.next,
                                                error |-> "file error"])]

ingestOthers == <<agentVars, assessVars, topkVars, rerankVars, rrfVars, searchVars,
                  docsearchVars, sourcesVars, askVars, researchVars, broadenVars>>

\* start_ingest and the worker that runs ingest_folder_task are two
\* processes: the handler commits the row, then calls delay(), and answers
\* after delay() has returned; the worker can take the task as soon as its
\* message is published.  ingest_handler is "none" before the request,
\* "delay" with the row committed and delay() about to publish, "published"
\* inside delay() after the message is out, "returned" after the answer
\* (the job id, or HTTP 500 for an exception of any of these lines).

\* start_ingest, main.py lines 229-241: the INSERT and its commit; an
\* exception of the block goes to lines 248-250 (HTTP 500), with no row or
\* with the row committed
StartIngestInsert ==
    /\ ingest_handler = "none"
    /\ \E insert \in StatementOutcomes :
           /\ ingest_job' = IF insert = "raises" THEN ingest_job
                            ELSE [ingest_job EXCEPT !.state = "pending"]
           /\ IF insert = "applied"
              THEN /\ ingest_handler' = "delay"
                   /\ ingest_response' = ingest_response
              ELSE /\ ingest_handler' = "returned"
                   /\ ingest_response' = Bound([status |-> 500])
    /\ UNCHANGED <<ingestOthers, ingest_task>>

\* line 244: delay() publishes the task's message, or raises before it
\* has published it (lines 248-250: HTTP 500, the row stays pending and no
\* task will run)
StartIngestDelay ==
    /\ ingest_handler = "delay"
    /\ \E enqueue_ok \in BOOLEAN :
           IF enqueue_ok
           THEN /\ ingest_task' = [ingest_task EXCEPT !.pc = "queued"]
                /\ ingest_handler' = "published"
                /\ ingest_response' = ingest_response
           ELSE /\ ingest_task' = ingest_task
                /\ ingest_handler' = "returned"
                /\ ingest_response' = Bound([status |-> 500])
    /\ UNCHANGED <<ingestOthers, ingest_job>>

\* lines 244-250: delay() returns and the handler answers with the job id,
\* or delay() raises after the message is out (a broker error after the
\* push) and the handler answers HTTP 500 while the task stays published
StartIngestRespond ==
    /\ ingest_handler = "published"
    /\ ingest_handler' = "returned"
    /\ \E delay_returns \in BOOLEAN :
           ingest_response' = Bound([status |-> IF delay_returns THEN 200 ELSE 500])
    /\ UNCHANGED <<ingestOthers, ingest_job, ingest_task>>

\* lines 41-48: UPDATE ... SET state = 'running'; an exception of the block
\* is caught by the except of line 140
TaskMarkRunning ==
    /\ ingest_task.pc = "queued"
    /\ \E update \in StatementOutcomes :
           /\ ingest_job' = IF update = "raises" THEN ingest_job
                            ELSE [ingest_job EXCEPT !.state = "running"]
           /\ ingest_task' = IF update = "applied"
                             THEN [ingest_task EXCEPT !.pc = "listing"]
                             ELSE [ingest_task EXCEPT !.pc = "fatal",
                                                      !.exception = "db error"]
    /\ UNCHANGED <<ingestOthers, ingest_handler, ingest_response>>

\* lines 50-64: the services are built and the folder is listed, or one of
\* these calls raises
TaskListFiles ==
    /\ ingest_task.pc = "listing"
    /\ \/ \E files \in FileLists :
              ingest_task' = [ingest_task EXCEPT !.pc = "files", !.files = files,
                                                !.next = 1, !.processed = 0,
                                                !.indexed = 0, !.errors = <<>>]
       \/ ingest_task' = [ingest_task EXCEPT !.pc = "fatal",
                                             !.exception = "drive error"]
    /\ UNCHANGED <<ingestOthers, ingest_job, ingest_handler, ingest_response>>

\* lines 66-120: one pass of the loop
TaskProcessFile ==
    /\ ingest_task.pc = "files"
    /\ ingest_task.next <= Len(ingest_task.files)
    /\ ingest_task' = ProcessFile(ingest_task, ingest_task.files[ingest_task.next])
    /\ UNCHANGED <<ingestOthers, ingest_job, ingest_handler, ingest_response>>

\* lines 122-138: UPDATE ... SET state = 'completed', processed, indexed,
\* errors, and the return.  The block is inside the try of line 40: an
\* exception of it is caught by the except of line 140, also when the
\* commit has been applied
TaskComplete ==
    /\ ingest_task.pc = "files"
    /\ ingest_task.next > Len(ingest_task.files)
    /\ \E update \in StatementOutcomes :
           /\ ingest_job' = IF update = "raises" THEN ingest_job
                            ELSE [state |-> "completed",
                                  processed |-> Bound(ingest_task.processed),
                                  indexed |-> Bound(ingest_task.indexed),
                                  errors |-> Bound(ingest_task.errors)]
           /\ ingest_task' = IF update = "applied"
                             THEN [ingest_task EXCEPT !.pc = "returned"]
                             ELSE [ingest_task EXCEPT !.pc = "fatal",
                                                      !.exception = "db error"]
    /\ UNCHANGED <<ingestOthers, ingest_handler, ingest_response>>

\* lines 140-153: UPDATE ... SET state = 'failed', errors, then raise; when
\* the statement raises without being applied the row stays as it is, and
\* the task ends with an exception either way
TaskFail ==
    /\ ingest_task.pc = "fatal"
    /\ \E update \in StatementOutcomes :
           ingest_job' = IF update = "raises" THEN ingest_job
                         ELSE [ingest_job EXCEPT
                                  !.state = "failed",
                                  !.errors = Bound(<<[error |-> ingest_task.exception]>>)]
    /\ ingest_task' = [ingest_task EXCEPT !.pc = "raised"]
    /\ UNCHANGED <<ingestOthers, ingest_handler, ingest_response>>

-----------------------------------------------------------------------------
(* Components that are not called *)

RerankIdle == rerank_call = Unbound /\ rerank_returned = Unbound

RRFIdle == rrf_call = Unbound /\ rrf_returned = Unbound

SearchIdle == search_call = Unbound /\ search_returned = Unbound

DocSearchIdle == docsearch_call = Unbound /\ docsearch_returned = Unbound

SourcesIdle == sources_call = Unbound /\ sources_returned = Unbound

AskIdle == ask_call = Unbound /\ ask_response = Unbound

ResearchIdle == research_call = Unbound /\ research_response = Unbound

RetrieverIdle == RRFIdle /\ SearchIdle /\ DocSearchIdle

EndpointsIdle == SourcesIdle /\ AskIdle /\ ResearchIdle

BroadenIdle == broaden_call = Unbound /\ broaden_returned = Unbound

IngestIdle == InitIngest

OthersIdle == BroadenIdle /\ IngestIdle

-----------------------------------------------------------------------------
(* Specifications *)

Init ==
    /\ InitAgent /\ AssessIdle /\ TopKIdle /\ RerankIdle /\ RetrieverIdle /\ EndpointsIdle
    /\ OthersIdle

Next == NextAgent

\* search_iteratively is sequential code: a step that can be taken is taken
Spec == Init /\ [][Next]_vars /\ WF_vars(Next)

InitOfAssess ==
    /\ AgentIdle /\ InitAssess /\ TopKIdle /\ RerankIdle /\ RetrieverIdle /\ EndpointsIdle
    /\ OthersIdle

NextAssess == AssessCall

SpecAssess == InitOfAssess /\ [][NextAssess]_vars

InitOfTopK ==
    /\ AgentIdle /\ AssessIdle /\ InitTopK /\ RerankIdle /\ RetrieverIdle /\ EndpointsIdle
    /\ OthersIdle

NextTopK == TopKCall

SpecTopK == InitOfTopK /\ [][NextTopK]_vars

InitOfRerank ==
    /\ AgentIdle /\ AssessIdle /\ TopKIdle /\ InitRerank /\ RetrieverIdle /\ EndpointsIdle
    /\ OthersIdle

NextRerank == RerankCall

SpecRerank == InitOfRerank /\ [][NextRerank]_vars

InitOfRRF ==
    /\ AgentIdle /\ AssessIdle /\ TopKIdle /\ RerankIdle
    /\ InitRRF /\ SearchIdle /\ DocSearchIdle /\ EndpointsIdle
    /\ OthersIdle

NextRRF == RRFCall

SpecRRF == InitOfRRF /\ [][NextRRF]_vars

InitOfSearch ==
    /\ AgentIdle /\ AssessIdle /\ TopKIdle /\ RerankIdle
    /\ RRFIdle /\ InitSearch /\ DocSearchIdle /\ EndpointsIdle
    /\ OthersIdle

NextSearch == SearchCall

SpecSearch == InitOfSearch /\ [][NextSearch]_vars

InitOfDocSearch ==
    /\ AgentIdle /\ AssessIdle /\ TopKIdle /\ RerankIdle
    /\ RRFIdle /\ SearchIdle /\ InitDocSearch /\ EndpointsIdle
    /\ OthersIdle

NextDocSearch == DocSearchCall

SpecDocSearch == InitOfDocSearch /\ [][NextDocSearch]_vars

InitOfSources ==
    /\ AgentIdle /\ AssessIdle /\ TopKIdle /\ RerankIdle /\ RetrieverIdle
    /\ InitSources /\ AskIdle /\ ResearchIdle
    /\ OthersIdle

NextSources == SourcesCall

SpecSources == InitOfSources /\ [][NextSources]_vars

InitOfAsk ==
    /\ AgentIdle /\ AssessIdle /\ TopKIdle /\ RerankIdle /\ RetrieverIdle
    /\ SourcesIdle /\ InitAsk /\ ResearchIdle
    /\ OthersIdle

NextAsk == AskCall

SpecAsk == InitOfAsk /\ [][NextAsk]_vars

InitOfResearch ==
    /\ AgentIdle /\ AssessIdle /\ TopKIdle /\ RerankIdle /\ RetrieverIdle
    /\ SourcesIdle /\ AskIdle /\ InitResearch
    /\ OthersIdle

NextResearch == ResearchCall

SpecResearch == InitOfResearch /\ [][NextResearch]_vars

InitOfBroaden ==
    /\ AgentIdle /\ AssessIdle /\ TopKIdle /\ RerankIdle /\ RetrieverIdle
    /\ EndpointsIdle /\ InitBroaden /\ IngestIdle

NextBroaden == BroadenCall

SpecBroaden == InitOfBroaden /\ [][NextBroaden]_vars

InitOfIngest ==
    /\ AgentIdle /\ AssessIdle /\ TopKIdle /\ RerankIdle /\ RetrieverIdle
    /\ EndpointsIdle /\ BroadenIdle /\ InitIngest

NextIngest ==
    \/ StartIngestInsert
    \/ StartIngestDelay
    \/ StartIngestRespond
    \/ TaskMarkRunning
    \/ TaskListFiles
    \/ TaskProcessFile
    \/ TaskComplete
    \/ TaskFail

\* the request handler and the worker are running processes of sequential
\* code: while one of them can take a step, a step is taken
SpecIngest == InitOfIngest /\ [][NextIngest]_vars /\ WF_vars(NextIngest)

-----------------------------------------------------------------------------
(* Properties of search_iteratively *)

Terminated == pc \in {"done", "raised"}

LastIteration == iterations[Len(iterations)]

\* the confidence c is at or above the agent's threshold
ReachesThreshold(c) == c >= confidence_threshold

\* the value all_sources holds for a chunk id
StoredChunk(sources, id) ==
    sources[CHOOSE i \in 1..Len(sources) : sources[i].chunk_id = id]

\* a retrieval of the run raised instead of returning results
RetrievalRaised == pc = "raised" /\ result.exception = "EmbeddingError"

\* C1 (as claimed): for max_iterations >= 1 and retrievals that return
\* results the run reaches final-answer generation and returns, it never
\* starts more than max_iterations iterations, and it is never back at the
\* head of the loop once an iteration has ended with max_sources or more
\* chunks in the accumulator.
C1_Termination ==
    /\ [](max_iterations >= 1 => iteration <= max_iterations)
    /\ []((pc = "loop" /\ iteration >= 1) => Len(all_sources) < max_sources)
    /\ <>(max_iterations = 0 \/ pc = "done" \/ RetrievalRaised)

\* the part of C1 that holds: the loop is bounded and every run ends, by
\* returning or by raising
C1_LoopBounded ==
    /\ [](max_iterations >= 1 => iteration <= max_iterations)
    /\ []((pc = "loop" /\ iteration >= 1) => Len(all_sources) < max_sources)
    /\ <>Terminated

\* C2: the accumulator never holds two entries for one chunk id, and a step
\* never removes a chunk id nor changes the value stored for it (so its size
\* never decreases and the first value retrieved for an id stays).
C2_AccumulatorGrowsOnly ==
    /\ [](DistinctIds(all_sources))
    /\ [][ /\ Len(all_sources') >= Len(all_sources)
           /\ \A id \in IdsOf(all_sources) :
                  /\ id \in IdsOf(all_sources')
                  /\ StoredChunk(all_sources', id) = StoredChunk(all_sources, id)
         ]_vars

\* a later retrieval returned chunk 1 with another content than the stored one
C2_Witness ==
    /\ iteration >= 2
    /\ pc = "rerank"
    /\ \E i \in 1..Len(candidates) :
           /\ candidates[i].chunk_id = 1
           /\ candidates[i].text = <<"b">>
    /\ 1 \in IdsOf(all_sources)
    /\ StoredChunk(all_sources, 1).text = <<"a">>

\* C3 (as claimed): the accumulator never holds more than max_sources chunks.
C3_AccumulatorBounded == Len(all_sources) <= max_sources

\* C4: an iteration whose confidence reaches the threshold is the last one
\* recorded, and after it no step retrieves, refines the query or records
\* another iteration.
C4_SatisfiedStops ==
    /\ [](\A i \in 1..Len(iterations) :
              ReachesThreshold(iterations[i].confidence) => i = Len(iterations))
    /\ [][ (iterations # <<>> /\ ReachesThreshold(LastIteration.confidence))
               => UNCHANGED <<all_sources, candidates, current_query,
                              iteration, iterations>>
         ]_vars

\* confidence 0.9 on iteration 1, threshold 0.85, nothing else stops the run:
\* one recorded iteration
C4_Witness ==
    /\ pc = "done"
    /\ confidence_threshold = PercentToConf(85)
    /\ iterations[1].confidence = PercentToConf(90)
    /\ Len(result.iterations) = 1
    /\ max_iterations >= 2
    /\ Len(all_sources) < max_sources

AllBelowThreshold ==
    \A i \in 1..Len(iterations) : ~ReachesThreshold(iterations[i].confidence)

\* C5 (as claimed): a run with max_iterations >= 1 whose retrievals return
\* results, whose confidences all stay below the threshold and whose
\* accumulator stays below max_sources ends by returning exactly
\* max_iterations iterations, numbered 1..max_iterations, and the last one's
\* confidence as final_confidence.
C5_RunsAllIterations ==
    (/\ Terminated /\ max_iterations >= 1 /\ ~RetrievalRaised
     /\ AllBelowThreshold /\ Len(all_sources) < max_sources)
        => /\ pc = "done"
           /\ Len(result.iterations) = max_iterations
           /\ result.total_iterations = max_iterations
           /\ \A i \in 1..Len(result.iterations) : result.iterations[i].iteration = i
           /\ result.final_confidence
                  = result.iterations[max_iterations].confidence

\* the part of C5 that holds: a run of this kind that returns has recorded
\* max_iterations iterations in order and returns the last confidence
C5_ReturnedRunsAllIterations ==
    (pc = "done" /\ AllBelowThreshold /\ Len(all_sources) < max_sources)
        => /\ Len(result.iterations) = max_iterations
           /\ result.total_iterations = max_iterations
           /\ \A i \in 1..Len(result.iterations) : result.iterations[i].iteration = i
           /\ result.final_confidence
                  = result.iterations[max_iterations].confidence

\* C6 (as claimed): with max_iterations = 0 the run returns an empty history,
\* total_iterations 0 and final_confidence 0.0, and does not fail.
C6_ZeroIterationsReturn ==
    (max_iterations = 0 /\ Terminated)
        => /\ pc = "done"
           /\ result.iterations = <<>>
           /\ result.total_iterations = 0
           /\ result.final_confidence = 0

\* C7 (as claimed): every recorded confidence lies in [0, 1].
C7_ConfidenceInUnitInterval ==
    \A i \in 1..Len(iterations) :
        /\ iterations[i].confidence >= 0
        /\ iterations[i].confidence <= ConfDen

-----------------------------------------------------------------------------
(* Properties of _assess_completeness *)

\* the text the assessment reads: the provider's text, or generate's error text
AssessResponse == generate(assess_llm).value

HasNoOpeningBrace == \A i \in 1..Len(AssessResponse) : AssessResponse[i] # "{"

HasNoClosingBrace == \A i \in 1..Len(AssessResponse) : AssessResponse[i] # "}"

IsNoJsonBlank(tok) == tok \notin {" ", "\t", "\n", "\r"}

\* the text from the first "{" to the last "}" is not one JSON object: what
\* stands between the two braces, whitespace apart, is neither a run of
\* members nor nothing
IsNotJson ==
    \/ HasNoOpeningBrace
    \/ HasNoClosingBrace
    \/ LET first == CHOOSE i \in 1..Len(AssessResponse) :
                        /\ AssessResponse[i] = "{"
                        /\ \A j \in 1..(i - 1) : AssessResponse[j] # "{"
           last == CHOOSE i \in 1..Len(AssessResponse) :
                       /\ AssessResponse[i] = "}"
                       /\ \A j \in (i + 1)..Len(AssessResponse) : AssessResponse[j] # "}"
       IN \/ last < first
          \/ SelectSeq(SubSeq(AssessResponse, first + 1, last - 1), IsNoJsonBlank)
                 \notin {<<"m">>, <<>>}

\* min(0.5 + n/40, 0.9) as a number of 1/ConfDen
ExpectedHeuristic(n) ==
    LET raw == (ConfDen * (20 + n)) \div 40
        cap == (ConfDen * 9) \div 10
    IN IF raw < cap THEN raw ELSE cap

\* C8 (as claimed): with n >= 1 sources, a response without "{" or without
\* "}", one that is no JSON object, or a failed provider call gives the
\* confidence min(0.5 + n/40, 0.9) and an empty missing_info list.
C8_AssessmentFallback ==
    (assess_result.bound /\ Len(assess_sources) >= 1 /\ (IsNotJson \/ ~assess_llm.ok))
        => /\ assess_result.value.confidence = ExpectedHeuristic(Len(assess_sources))
           /\ assess_result.value.missing_info = <<>>

\* the part of C8 that holds: whenever the text the assessment reads (the
\* provider's answer or generate's error text) has no "{", no "}" or no
\* JSON object between them, the result is the heuristic
C8_NonJsonFallback ==
    (assess_result.bound /\ Len(assess_sources) >= 1 /\ IsNotJson)
        => /\ assess_result.value.confidence = ExpectedHeuristic(Len(assess_sources))
           /\ assess_result.value.missing_info = <<>>

-----------------------------------------------------------------------------
(* Properties of calculate_dynamic_top_k *)

QueryLower == lower(request_query)

\* C9: the estimate is an integer between 4 and 20.
C9_TopKInRange ==
    estimated_top_k.bound
        => (estimated_top_k.value >= 4 /\ estimated_top_k.value <= 20)

\* an exhaustive, comparative query of more than 20 words: 27 before the clamp
C9_Witness ==
    /\ estimated_top_k.bound
    /\ ContainsAny(QueryLower, exhaustive_keywords)
    /\ ContainsAny(QueryLower, comparative_keywords)
    /\ ~ContainsAny(QueryLower, specific_keywords)
    /\ WordCount(request_query) > 20
    /\ estimated_top_k.value = 20

\* the case of C10: an exhaustive marker, fewer than five words, no
\* multi-question, comparative or specific-fact marker
ShortExhaustiveOnly ==
    /\ estimated_top_k.bound
    /\ ContainsAny(QueryLower, exhaustive_keywords)
    /\ WordCount(request_query) < 5
    /\ QuestionCount(QueryLower) = 0
    /\ ~ContainsAny(QueryLower, comparative_keywords)
    /\ ~ContainsAny(QueryLower, specific_keywords)

\* C10: such a query is estimated at 20.
C10_ShortExhaustiveIs20 == ShortExhaustiveOnly => estimated_top_k.value = 20

-----------------------------------------------------------------------------
(* Properties of BGEReranker.rerank *)

\* C11: when the scoring call fails, rerank returns the first top_k documents
\* of its input, unchanged and in input order, and for a non-empty input and
\* top_k >= 1 the result is not empty.
C11_RerankFallback ==
    (rerank_returned.bound /\ ~rerank_call.value.scorer.ok)
        => LET docs == rerank_call.value.documents
               n == rerank_call.value.top_k
               out == rerank_returned.value
           IN /\ Len(out) = (IF n <= Len(docs) THEN n ELSE Len(docs))
              /\ \A i \in 1..Len(out) : out[i] = docs[i]
              /\ (docs # <<>> /\ n >= 1) => out # <<>>

\* a failing scorer, three documents A, B, C and top_k = 2: the result is
\* A, B
C11_Witness ==
    /\ rerank_returned.bound
    /\ ~rerank_call.value.scorer.ok
    /\ rerank_call.value.top_k = 2
    /\ rerank_call.value.documents =
           << [chunk_id |-> 1, text |-> <<"a">>],
              [chunk_id |-> 1, text |-> <<"b">>],
              [chunk_id |-> 2, text |-> <<"a">>] >>
    /\ rerank_returned.value =
           << [chunk_id |-> 1, text |-> <<"a">>], [chunk_id |-> 1, text |-> <<"b">>] >>

-----------------------------------------------------------------------------
(* Properties of _reciprocal_rank_fusion *)

\* position at which an id enters the score dict: its first place in the
\* vector list followed by the lexical list
FirstSeen(id) ==
    LET both == rrf_call.value.vector_results \o rrf_call.value.bm25_results
    IN CHOOSE i \in 1..Len(both) :
           /\ both[i].chunk_id = id
           /\ \A j \in 1..(i - 1) : both[j].chunk_id # id

\* the sum of 1 / (k + rank) over the places of an id in a list
ListScore(list, id) ==
    IF \E r \in 1..Len(list) : list[r].chunk_id = id
    THEN RRFDen(rrf_call.value.k)
             \div (rrf_call.value.k + (CHOOSE r \in 1..Len(list) : list[r].chunk_id = id))
    ELSE 0

TotalScore(id) ==
    ListScore(rrf_call.value.vector_results, id) + ListScore(rrf_call.value.bm25_results, id)

\* C12: the output carries each id's total score, is ordered by total score
\* descending with equal scores in insertion order, and fusing the same
\* arguments again gives the same list.
C12_FusionOrder ==
    rrf_returned.bound
        => LET out == rrf_returned.value
           IN /\ \A i \in 1..Len(out) : out[i].rrf_score = TotalScore(out[i].chunk_id)
              /\ \A i, j \in 1..Len(out) :
                     i < j => \/ out[i].rrf_score > out[j].rrf_score
                              \/ /\ out[i].rrf_score = out[j].rrf_score
                                 /\ FirstSeen(out[i].chunk_id) < FirstSeen(out[j].chunk_id)
              /\ out = _reciprocal_rank_fusion(rrf_call.value.vector_results,
                                               rrf_call.value.bm25_results,
                                               rrf_call.value.top_k, rrf_call.value.k)

\* ids 1 and 2 are ranked 1, 2 by one backend and 2, 1 by the other: equal
\* totals, and 1, inserted first, comes first
C12_Witness ==
    /\ rrf_returned.bound
    /\ FusedIdsOf(rrf_call.value.vector_results) = <<1, 2>>
    /\ FusedIdsOf(rrf_call.value.bm25_results) = <<2, 1>>
    /\ Len(rrf_returned.value) = 2
    /\ rrf_returned.value[1].rrf_score = rrf_returned.value[2].rrf_score
    /\ FusedIdsOf(rrf_returned.value) = <<1, 2>>

\* C13: two empty lists fuse to the empty list; an empty list and a list of
\* distinct ids fuse to the ids of that list in its order, cut to top_k.
C13_FusionWithEmpty ==
    rrf_returned.bound
        => LET v == rrf_call.value.vector_results
               b == rrf_call.value.bm25_results
               n == rrf_call.value.top_k
               ids == FusedIdsOf(rrf_returned.value)
           IN /\ (v = <<>> /\ b = <<>>) => ids = <<>>
              /\ (v = <<>> /\ b # <<>>) =>
                     /\ Len(ids) = (IF n <= Len(b) THEN n ELSE Len(b))
                     /\ \A i \in 1..Len(ids) : ids[i] = b[i].chunk_id
              /\ (v # <<>> /\ b = <<>>) =>
                     /\ Len(ids) = (IF n <= Len(v) THEN n ELSE Len(v))
                     /\ \A i \in 1..Len(ids) : ids[i] = v[i].chunk_id

\* no vector results, lexical results 3, 1, 2 and top_k = 2: the result is 3, 1
C13_Witness ==
    /\ rrf_returned.bound
    /\ rrf_call.value.vector_results = <<>>
    /\ FusedIdsOf(rrf_call.value.bm25_results) = <<3, 1, 2>>
    /\ rrf_call.value.top_k = 2
    /\ FusedIdsOf(rrf_returned.value) = <<3, 1>>

-----------------------------------------------------------------------------
(* Properties of the sources of a response *)

\* C14: whatever the endpoint, a source's snippet is the first 200
\* characters of the chunk text, followed by "..." exactly when the text is
\* longer than 200 characters.
C14_SnippetIs200 ==
    sources_returned.bound
        => \A i \in 1..Len(sources_returned.value) :
               LET text == sources_call.value.chunks[i].text
                   snippet == sources_returned.value[i].snippet
                   head == IF Len(text) <= 200 THEN Len(text) ELSE 200
               IN /\ \A j \in 1..head : snippet[j] = text[j]
                  /\ Len(text) <= 200 => Len(snippet) = head
                  /\ Len(text) > 200 =>
                         /\ Len(snippet) = head + 3
                         /\ \A j \in 1..3 : snippet[head + j] = "."

-----------------------------------------------------------------------------
(* Properties of HybridRetriever.search *)

SearchEnv == search_call.value.env

\* the ids the details query resolves
Resolvable == IF SearchEnv.details.ok THEN SearchEnv.details.existing ELSE {}

\* the elements of a list of rows whose id resolves, in the order of the list
ResolvedOf(rows) == SelectSeq(rows, LAMBDA r : r.chunk_id \in Resolvable)

\* the first n elements of s
FirstOf(s, n) == [i \in 1..(IF n <= Len(s) THEN n ELSE Len(s)) |-> s[i]]

\* C15: when exactly one backend query fails, search raises nothing and the
\* returned chunks are the first top_k rows of the other backend, in that
\* backend's order, as far as they resolve.
C15_OneBackendFails ==
    (search_returned.bound /\ SearchEnv.embed_ok
         /\ SearchEnv.vector.ok # SearchEnv.bm25.ok)
        => LET alone == IF SearchEnv.vector.ok THEN SearchEnv.vector.ranking
                                               ELSE SearchEnv.bm25.ranking
           IN /\ ~search_returned.value.raised
              /\ FusedIdsOf(search_returned.value.value)
                     = FusedIdsOf(ResolvedOf(FirstOf(alone, search_call.value.top_k)))

\* the vector query fails although chunk 1 is indexed, the lexical query
\* ranks 3, 1, 2 and top_k = 2: the result is 3, 1
C15_Witness ==
    /\ search_returned.bound
    /\ SearchEnv.embed_ok
    /\ ~SearchEnv.vector.ok
    /\ FusedIdsOf(SearchEnv.vector.ranking) = <<1>>
    /\ SearchEnv.bm25.ok
    /\ FusedIdsOf(SearchEnv.bm25.ranking) = <<3, 1, 2>>
    /\ SearchEnv.details.ok
    /\ SearchEnv.details.existing = FusedIds
    /\ search_call.value.top_k = 2
    /\ FusedIdsOf(search_returned.value.value) = <<3, 1>>

\* what a backend hands over when it is asked for n rows
RowsOf(db, n) == IF db.ok THEN FirstOf(db.ranking, n) ELSE <<>>

\* C18: search returns the fusion of the first 2 * top_k rows of each
\* backend, cut to top_k and restricted to the ids that resolve: at most
\* top_k chunks, in fused order, each with its fused score as score.
C18_SearchResult ==
    (search_returned.bound /\ SearchEnv.embed_ok)
        => LET n == search_call.value.top_k
               fused == _reciprocal_rank_fusion(RowsOf(SearchEnv.vector, 2 * n),
                                                RowsOf(SearchEnv.bm25, 2 * n),
                                                n, RRFConstant)
               expected == ResolvedOf(fused)
               out == search_returned.value.value
           IN /\ ~search_returned.value.raised
              /\ Len(out) <= n
              /\ Len(out) = Len(expected)
              /\ \A i \in 1..Len(out) :
                     /\ out[i].chunk_id = expected[i].chunk_id
                     /\ out[i].score = expected[i].rrf_score

\* top_k = 2, the backends rank 1, 2, 3 and 3, 2, 1, chunk 1 no longer
\* exists: of the fused 1, 3 only 3 is returned
C18_Witness ==
    /\ search_returned.bound
    /\ SearchEnv.embed_ok
    /\ search_call.value.top_k = 2
    /\ SearchEnv.vector.ok /\ FusedIdsOf(SearchEnv.vector.ranking) = <<1, 2, 3>>
    /\ SearchEnv.bm25.ok /\ FusedIdsOf(SearchEnv.bm25.ranking) = <<3, 2, 1>>
    /\ SearchEnv.details.ok /\ SearchEnv.details.existing = {2, 3}
    /\ FusedIdsOf(search_returned.value.value) = <<3>>

-----------------------------------------------------------------------------
(* Properties of HybridRetriever.document_search *)

DocEnv == docsearch_call.value.env

\* the fused and resolved chunks of the call: id and fused score
DocChunks ==
    LET n == docsearch_call.value.max_chunks
        v == IF DocEnv.embed_ok /\ DocEnv.vector.ok THEN FirstOf(DocEnv.vector.ranking, n)
             ELSE <<>>
        b == IF DocEnv.bm25.ok THEN FirstOf(DocEnv.bm25.ranking, n) ELSE <<>>
        existing == IF DocEnv.details.ok THEN DocEnv.details.existing ELSE {}
    IN SelectSeq(_reciprocal_rank_fusion(v, b, n, RRFConstant),
                 LAMBDA r : r.chunk_id \in existing)

\* the places in DocChunks of the chunks of a document
ChunkPlacesOf(document_id) ==
    { i \in 1..Len(DocChunks) : DocumentOf(DocChunks[i].chunk_id) = document_id }

MatchingDocs == { DocumentOf(DocChunks[i].chunk_id) : i \in 1..Len(DocChunks) }

BestScoreOf(document_id) ==
    LET p == CHOOSE i \in ChunkPlacesOf(document_id) :
                 \A j \in ChunkPlacesOf(document_id) :
                     DocChunks[i].rrf_score >= DocChunks[j].rrf_score
    IN DocChunks[p].rrf_score

\* C19: every returned document holds each of its fused-and-resolved chunks
\* exactly once, has the maximum of their scores as best_score, the
\* documents are in descending best_score order, and they are all matching
\* documents if top_docs = 0, else the first top_docs of them.
C19_DocumentSearch ==
    docsearch_returned.bound
        => LET out == docsearch_returned.value
               top_docs == docsearch_call.value.top_docs
               all == Cardinality(MatchingDocs)
           IN /\ \A i \in 1..Len(out) :
                     /\ out[i].document_id \in MatchingDocs
                     /\ Len(out[i].matched_chunks)
                            = Cardinality(ChunkPlacesOf(out[i].document_id))
                     /\ \A p \in ChunkPlacesOf(out[i].document_id) :
                            \E j \in 1..Len(out[i].matched_chunks) :
                                /\ out[i].matched_chunks[j].chunk_id = DocChunks[p].chunk_id
                                /\ out[i].matched_chunks[j].score = DocChunks[p].rrf_score
                     /\ out[i].best_score = BestScoreOf(out[i].document_id)
              /\ \A i, j \in 1..Len(out) :
                     i < j => /\ out[i].document_id # out[j].document_id
                              /\ out[i].best_score >= out[j].best_score
              /\ \A d \in MatchingDocs :
                     (\A i \in 1..Len(out) : out[i].document_id # d)
                         => \A i \in 1..Len(out) : out[i].best_score >= BestScoreOf(d)
              /\ Len(out) = (IF top_docs > 0 /\ top_docs < all THEN top_docs ELSE all)

\* top_docs = 0 and three resolved chunks of two documents: both documents
\* are returned, the first with two chunks
C19_Witness ==
    /\ docsearch_returned.bound
    /\ docsearch_call.value.top_docs = 0
    /\ Len(DocChunks) = 3
    /\ Len(docsearch_returned.value) = 2
    /\ Len(docsearch_returned.value[1].matched_chunks) = 2
    /\ docsearch_returned.value[1].best_score > docsearch_returned.value[2].best_score

-----------------------------------------------------------------------------
(* Properties of ask_question *)

\* the embedding and backend calls work and rank something, the details
\* query raises: in every search of the request
DetailsFailEverywhere ==
    \A i \in 1..Len(ask_call.value.envs) :
        LET e == ask_call.value.envs[i]
        IN /\ e.embed_ok
           /\ ~e.details.ok

\* C16: when the details query fails in the searches of a request, every
\* search returns the empty list and /ask answers with the fixed no-answer
\* response, not with an error.
C16_DetailsFailureNoAnswer ==
    (ask_response.bound /\ DetailsFailEverywhere)
        => /\ ask_response.value.status = 200
           /\ ask_response.value.all_candidates = <<>>
           /\ ask_response.value.answer = NoAnswer
           /\ ask_response.value.sources = <<>>

\* two queries; both backends rank chunks for each, the details query
\* fails for each: the no-answer response
C16_Witness ==
    /\ ask_response.bound
    /\ Len(ask_call.value.envs) = 2
    /\ DetailsFailEverywhere
    /\ \A i \in 1..2 :
           /\ ask_call.value.envs[i].vector.ok
           /\ FusedIdsOf(ask_call.value.envs[i].vector.ranking) = <<1, 2>>
           /\ ask_call.value.envs[i].bm25.ok
           /\ FusedIdsOf(ask_call.value.envs[i].bm25.ranking) = <<2>>
    /\ ask_call.value.request.top_k = Bound(2)
    /\ ask_response.value.status = 200
    /\ ask_response.value.answer = NoAnswer

-----------------------------------------------------------------------------
(* Properties of deep_research *)

\* the retrieval of sub-question i delivers nothing: the embedding call
\* raises, both backend queries fail, or the details query fails
RetrievalFails(e) ==
    \/ ~e.embed_ok
    \/ ~e.vector.ok /\ ~e.bm25.ok
    \/ ~e.details.ok

\* the decomposition step produced a list of sub-questions
Decomposed ==
    ~Decompose(research_call.value.request.query,
               research_call.value.decomposition).raised

\* C17: a retrieval or rerank failure for one sub-question never aborts the
\* request: the response is a result with one step per sub-question, the
\* step of a sub-question whose retrieval or reranking failed carries the
\* placeholder answer and no source ids
C17_SubQuestionFailureIsolated ==
    (research_response.bound /\ Decomposed) =>
        LET call == research_call.value
            sub_questions == Decompose(call.request.query, call.decomposition).value
            resp == research_response.value
        IN /\ resp.status = 200
           /\ resp.num_sub_questions = Len(sub_questions)
           /\ Len(resp.research_steps) = Len(sub_questions)
           /\ \A i \in 1..Len(sub_questions) :
                  (RetrievalFails(call.envs[i]) \/ ~call.scorer.ok)
                      => /\ resp.research_steps[i].answer = ResearchPlaceholder
                         /\ resp.research_steps[i].source_ids = <<>>

-----------------------------------------------------------------------------
(* The arguments of the reranker and assessor calls of search_iteratively *)

\* C20: in every iteration, also one that retrieved with a refined query,
\* the reranker was called with the original query, all chunks accumulated
\* so far and the limit min(max_sources, number of accumulated chunks), and
\* the assessor was called with the original query and the reranked chunks
C20_RankingUsesOriginalQuery ==
    /\ pc \in {"assess", "decide"} =>
           reranker_called =
               Bound([query |-> OriginalQuery,
                      documents |-> all_sources,
                      top_k |-> Min(max_sources, Len(all_sources))])
    /\ pc = "decide" =>
           assessor_called =
               Bound([query |-> OriginalQuery,
                      sources |-> reranked.value,
                      iteration |-> iteration])

\* a later iteration that retrieved with a refined query and found only
\* chunks other than the ones accumulated before, after both calls
C20_Witness ==
    /\ pc = "decide"
    /\ iteration >= 2
    /\ current_query # OriginalQuery
    /\ IdsOf(all_sources) \ IdsOf(candidates) # {}
    /\ candidates # <<>>
    /\ reranker_called.bound
    /\ assessor_called.bound
    /\ assessor_called.value.iteration = iteration

-----------------------------------------------------------------------------
(* The query after an assessment of no sources *)

\* the reranked list of the last assessment was empty
AssessedNoSources == reranked.bound /\ reranked.value = <<>>

MissingSources == <<"Tarvitaan relevantteja lähteitä">>

\* C21 as stated: given no sources the assessment has confidence 0.0 and an
\* empty missing-info list, and the next query is the broadened one
C21_NoSourcesBroadens ==
    /\ (pc = "decide" /\ AssessedNoSources) =>
           /\ assessment_result.value.confidence = 0
           /\ assessment_result.value.missing_info = <<>>
    /\ (pc = "loop" /\ iteration >= 1 /\ AssessedNoSources) =>
           current_query = _broaden_query(OriginalQuery, iteration)

\* C21, amended: given no sources the assessment has confidence 0.0 and the
\* one-item missing-info list "Tarvitaan relevantteja lähteitä", and the next
\* query is what the follow-up call made of it, not the broadened query
C21_NoSourcesAsksFollowup ==
    /\ (pc = "decide" /\ AssessedNoSources) =>
           /\ assessment_result.value.confidence = 0
           /\ assessment_result.value.missing_info = MissingSources
    /\ (pc = "loop" /\ iteration >= 1 /\ AssessedNoSources) =>
           /\ current_query \in
                  { _generate_followup_query(OriginalQuery, MissingSources, llm).value :
                        llm \in FollowupLLMOutcomes }
           /\ current_query # _broaden_query(OriginalQuery, iteration)

\* an iteration that retrieved nothing was assessed and the loop continues
C21_Witness ==
    /\ pc = "loop"
    /\ iteration = 1
    /\ iteration < max_iterations
    /\ AssessedNoSources
    /\ all_sources = <<>>

-----------------------------------------------------------------------------
(* The follow-up query when the provider fails *)

\* the text starts with the words of generate's error text
IsErrorText(text) ==
    /\ Len(text) >= 5
    /\ SubSeq(text, 1, 5) = <<"Virhe", " ", "vastauksen", " ", "generoinnissa:">>

\* the loop continues with the query of a follow-up call whose provider
\* call failed
FollowupProviderFailed ==
    /\ pc = "loop"
    /\ iteration >= 1
    /\ assessment_result.bound
    /\ assessment_result.value.missing_info # <<>>
    /\ followup_called.bound
    /\ followup_called.value.provider = "raised"

\* C22: when the missing-info list is non-empty and the LLM call of the
\* follow-up query fails, the next iteration's query is the original query
\* followed by the first missing item, and it is never the provider's error
\* text
C22_FollowupFailureFallsBack ==
    FollowupProviderFailed =>
        /\ current_query
               = OriginalQuery \o <<" ", assessment_result.value.missing_info[1]>>
        /\ ~IsErrorText(current_query)

-----------------------------------------------------------------------------
(* Properties of _broaden_query *)

BroadeningPhrases ==
    << <<"kaikki", " ", "tiedot">>, <<"kattava", " ", "selvitys">>,
       <<"laaja", " ", "haku">>, <<"eri", " ", "näkökulmat">> >>

\* phrase number n (counted from 0) and a blank put in front of the query
Broadened(n, q) == BroadeningPhrases[n + 1] \o <<" ">> \o q

\* C23: after iteration i with nothing reported missing the next query is
\* broadening template (i - 1) mod 4 in front of the original query; it
\* differs from the original query and from the query of the round before
\* (the original query in round 1, template (i - 2) mod 4 after that)
C23_BroadeningRotates ==
    broaden_returned.bound =>
        LET q == broaden_call.value.original_query
            i == broaden_call.value.iteration
        IN /\ broaden_returned.value = Broadened((i - 1) % 4, q)
           /\ broaden_returned.value # q
           /\ i >= 2 => broaden_returned.value # Broadened((i - 2) % 4, q)

\* the rotation has come round: the fifth iteration uses the first template
C23_Witness ==
    /\ broaden_returned.bound
    /\ broaden_call.value.iteration = 5
    /\ broaden_returned.value = Broadened(0, broaden_call.value.original_query)

-----------------------------------------------------------------------------
(* The fused score *)

\* the 1-based rank of an id in a list, 0 when the list does not hold it
RankIn(list, id) ==
    IF \E r \in 1..Len(list) : list[r].chunk_id = id
    THEN CHOOSE r \in 1..Len(list) : list[r].chunk_id = id
    ELSE 0

\* score / RRFDen(k) = 1/(k + r1) + 1/(k + r2), a rank of 0 contributing 0;
\* compared after multiplying by the denominators
IsReciprocalSum(score, k, r1, r2) ==
    IF r1 = 0 /\ r2 = 0 THEN score = 0
    ELSE IF r2 = 0 THEN score * (k + r1) = RRFDen(k)
    ELSE IF r1 = 0 THEN score * (k + r2) = RRFDen(k)
    ELSE score * (k + r1) * (k + r2) = RRFDen(k) * ((k + r1) + (k + r2))

\* C24: the score returned for an id is the sum over the two lists of
\* 1/(k + r), r its 1-based rank there, and 0 for a list without it; the
\* output has no id twice, is sorted by score descending and has at most
\* top_k entries
C24_FusedScore ==
    rrf_returned.bound
        => LET out == rrf_returned.value
               c == rrf_call.value
           IN /\ \A i \in 1..Len(out) :
                     /\ IsReciprocalSum(out[i].rrf_score, c.k,
                                        RankIn(c.vector_results, out[i].chunk_id),
                                        RankIn(c.bm25_results, out[i].chunk_id))
                     /\ out[i].rrf_score > 0
              /\ \A i, j \in 1..Len(out) : i # j => out[i].chunk_id # out[j].chunk_id
              /\ \A i \in 1..(Len(out) - 1) : out[i].rrf_score >= out[i + 1].rrf_score
              /\ Len(out) <= c.top_k

\* id 1 is ranked by both lists at different ranks, id 2 by one list only,
\* id 3 is cut off by top_k
C24_Witness ==
    /\ rrf_returned.bound
    /\ FusedIdsOf(rrf_call.value.vector_results) = <<1, 2, 3>>
    /\ FusedIdsOf(rrf_call.value.bm25_results) = <<3, 1>>
    /\ rrf_call.value.top_k = 2
    /\ Len(rrf_returned.value) = 2
    /\ rrf_returned.value[1].chunk_id = 1

-----------------------------------------------------------------------------
(* Exhaustive queries that ask for a specific fact *)

ExhaustiveAndSpecific ==
    /\ estimated_top_k.bound
    /\ ContainsAny(QueryLower, exhaustive_keywords)
    /\ ContainsAny(QueryLower, specific_keywords)

\* what the word count, the question markers and a comparative keyword add
\* to a running value of 20
AddedTo20 ==
    (IF WordCount(request_query) > 20 THEN 3
     ELSE IF WordCount(request_query) > 10 THEN 2
     ELSE IF WordCount(request_query) < 5 THEN -1
     ELSE 0)
    + (IF QuestionCount(QueryLower) > 2 THEN 3
       ELSE IF QuestionCount(QueryLower) > 1 THEN 2
       ELSE 0)
    + (IF ContainsAny(QueryLower, comparative_keywords) THEN 4 ELSE 0)

\* C25: for a query with an exhaustive marker and a specific-fact keyword
\* the reduction by 2 is applied to the value that started from 20, and the
\* estimate lies between 17 and 20
C25_SpecificAfterExhaustive ==
    ExhaustiveAndSpecific =>
        /\ estimated_top_k.value >= 17
        /\ estimated_top_k.value <= 20
        /\ estimated_top_k.value = Min(20, 20 + AddedTo20 - 2)

\* the lowest case: fewer than five words and no other marker, 20 - 1 - 2
C25_Witness ==
    /\ ExhaustiveAndSpecific
    /\ WordCount(request_query) < 5
    /\ QuestionCount(QueryLower) = 0
    /\ ~ContainsAny(QueryLower, comparative_keywords)
    /\ estimated_top_k.value = 17

\* the questions of the research steps, in order
StepQuestions(steps) == [i \in 1..Len(steps) |-> steps[i].question]

\* no retrieval of the run raises
NoRetrievalFails ==
    \A i \in 1..Len(research_call.value.envs) :
        ~RetrievalFails(research_call.value.envs[i])

\* C26: whatever the decomposition call returns, the research pipeline
\* answers with between 1 and 5 sub-questions, the original query alone when
\* the value extracted from the text is empty; research_steps holds one
\* entry per sub-question, in order, and num_sub_questions is its length.
C26_SubQuestionsBetween1And5 ==
    (research_response.bound /\ NoRetrievalFails) =>
        LET call == research_call.value
            resp == research_response.value
            extracted == ParseSubQuestions(generate(call.decomposition).value,
                                           call.decomposition.payload)
        IN /\ resp.status = 200
           /\ resp.num_sub_questions \in 1..ResearchSubQuestionLimit
           /\ Len(resp.research_steps) = resp.num_sub_questions
           /\ StepQuestions(resp.research_steps)
                  = Decompose(call.request.query, call.decomposition).value
           /\ ~Truthy(extracted)
                  => StepQuestions(resp.research_steps) = <<call.request.query>>

\* the same for the runs whose "sub_questions" value is a list or is empty
C26_ListsBetween1And5 ==
    (/\ research_response.bound
     /\ NoRetrievalFails
     /\ ~ParseSubQuestions(generate(research_call.value.decomposition).value,
                           research_call.value.decomposition.payload).kind
            \in {"number", "bool"}) => C26_SubQuestionsBetween1And5

\* the first research step that lists chunk id c
FirstStepWith(steps, c) ==
    CHOOSE i \in 1..Len(steps) :
        /\ \E k \in 1..Len(steps[i].source_ids) : steps[i].source_ids[k] = c
        /\ \A j \in 1..(i - 1) :
               \A k \in 1..Len(steps[j].source_ids) : steps[j].source_ids[k] # c

\* C27: the returned source map holds at most one entry per chunk id, the
\* entry of a chunk id is the one made from the text seen by the first
\* sub-question that returned it, and every id of every step's source_ids
\* is a key of the map.
C27_SourceMapFirstWins ==
    (research_response.bound /\ research_response.value.status = 200) =>
        LET resp == research_response.value
            steps == resp.research_steps
            envs == research_call.value.envs
        IN /\ \A i, j \in 1..Len(resp.sources) :
                  resp.sources[i].chunk_id = resp.sources[j].chunk_id => i = j
           /\ \A i \in 1..Len(steps) : \A k \in 1..Len(steps[i].source_ids) :
                  steps[i].source_ids[k] \in IdsOf(resp.sources)
           /\ \A i \in 1..Len(resp.sources) :
                  LET c == resp.sources[i].chunk_id
                  IN /\ \E n \in 1..Len(steps) :
                            \E k \in 1..Len(steps[n].source_ids) :
                                steps[n].source_ids[k] = c
                     /\ resp.sources[i].snippet
                            = envs[FirstStepWith(steps, c)].details.text

\* two sub-questions returned chunk 1, the second with another text
C27_Witness ==
    /\ research_response.bound
    /\ research_response.value.status = 200
    /\ Len(research_response.value.research_steps) >= 2
    /\ research_response.value.research_steps[1].source_ids # <<>>
    /\ research_response.value.research_steps[2].source_ids = <<1>>
    /\ research_call.value.envs[1].details.text = StoredText
    /\ research_call.value.envs[2].details.text # StoredText
    /\ \E i \in 1..Len(research_response.value.sources) :
           /\ research_response.value.sources[i].chunk_id = 1
           /\ research_response.value.sources[i].snippet = StoredText

-----------------------------------------------------------------------------
(* The size of what search_iteratively returns *)

\* the reranker returned its input order: the chunks carry no score
RerankFellBack ==
    /\ reranked.bound
    /\ reranked.value # <<>>
    /\ "rerank_score" \notin DOMAIN reranked.value[1]

\* C28: the reranked list, every recorded num_results, the returned sources
\* and the reported total_sources never exceed max_sources, whatever the
\* size of the accumulator and whether or not the reranker fell back to the
\* input order.
C28_ReturnedSourcesBounded ==
    /\ reranked.bound => Len(reranked.value) <= max_sources
    /\ \A i \in 1..Len(iterations) : iterations[i].num_results <= max_sources
    /\ pc = "done" =>
           /\ Len(result.sources) <= max_sources
           /\ result.total_sources <= max_sources
           /\ \A i \in 1..Len(result.iterations) :
                  result.iterations[i].num_results <= max_sources

\* a finished run whose accumulator holds more than max_sources chunks and
\* whose last rerank fell back to the input order
C28_Witness ==
    /\ pc = "done"
    /\ Len(all_sources) > max_sources
    /\ RerankFellBack
    /\ Len(result.sources) = max_sources
    /\ result.total_sources = max_sources

-----------------------------------------------------------------------------
(* Fusion with the two input lists swapped *)

\* the fusion of the same call with the two lists swapped
SwappedFusion(top_k) ==
    _reciprocal_rank_fusion(rrf_call.value.bm25_results,
                            rrf_call.value.vector_results,
                            top_k, rrf_call.value.k)

\* the (id, score) pairs of a fused list
ScoredIds(fused) == { <<fused[i].chunk_id, fused[i].rrf_score>> : i \in 1..Len(fused) }

\* the position of chunk id c in a fused list
PositionIn(fused, c) == CHOOSE i \in 1..Len(fused) : fused[i].chunk_id = c

\* the number of distinct ids of the two input lists
DistinctInputIds ==
    Cardinality(IdsOf(rrf_call.value.vector_results)
                    \cup IdsOf(rrf_call.value.bm25_results))

\* C29: with the two input lists swapped every returned id has the same
\* fused score; when top_k is at least the number of distinct ids the
\* swapped call returns the same ids with the same scores, and two ids
\* change their relative order only if their scores are equal.
C29_FusionSymmetric ==
    rrf_returned.bound
        => LET out == rrf_returned.value
               all == SwappedFusion(NumFusedIds)
               swapped == SwappedFusion(rrf_call.value.top_k)
           IN /\ ScoredIds(out) \subseteq ScoredIds(all)
              /\ rrf_call.value.top_k >= DistinctInputIds =>
                     /\ ScoredIds(out) = ScoredIds(swapped)
                     /\ Len(out) = Len(swapped)
                     /\ \A i, j \in 1..Len(out) :
                            (/\ i < j
                             /\ PositionIn(swapped, out[i].chunk_id)
                                    > PositionIn(swapped, out[j].chunk_id))
                                => out[i].rrf_score = out[j].rrf_score

\* ids 1 and 2 are ranked 1, 2 by one list and 2, 1 by the other, id 3 by
\* one list only: the call returns 1 before 2, the swapped call 2 before 1,
\* and id 3 stays last
C29_Witness ==
    /\ rrf_returned.bound
    /\ FusedIdsOf(rrf_call.value.vector_results) = <<1, 2, 3>>
    /\ FusedIdsOf(rrf_call.value.bm25_results) = <<2, 1>>
    /\ rrf_call.value.top_k = 3
    /\ FusedIdsOf(rrf_returned.value) = <<1, 2, 3>>
    /\ FusedIdsOf(SwappedFusion(3)) = <<2, 1, 3>>

-----------------------------------------------------------------------------
(* The life of an ingest job *)

\* a step that changes the job's state makes one of the moves of `allowed`
JobMovesWithin(allowed) ==
    ingest_job'.state # ingest_job.state
        => <<ingest_job.state, ingest_job'.state>> \in allowed

\* the number of listed files whose outcome is in `kinds`
RECURSIVE CountFiles(_, _)
CountFiles(files, kinds) ==
    IF files = <<>> THEN 0
    ELSE (IF files[1] \in kinds THEN 1 ELSE 0) + CountFiles(Tail(files), kinds)

\* the loop is at a file whose processing raises
AtFailingFile ==
    /\ ingest_task.pc = "files"
    /\ ingest_task.next <= Len(ingest_task.files)
    /\ ingest_task.files[ingest_task.next] = "error"

\* the step at a failing file appends one entry for that file to errors,
\* counts the file in processed, leaves the job row alone and goes on to
\* the next file
FileErrorIsolated ==
    (AtFailingFile /\ ingest_task' # ingest_task) =>
        /\ Len(ingest_task'.errors) = Len(ingest_task.errors) + 1
        /\ ingest_task'.errors[Len(ingest_task'.errors)].file_id = ingest_task.next
        /\ SubSeq(ingest_task'.errors, 1, Len(ingest_task.errors)) = ingest_task.errors
        /\ ingest_task'.processed = ingest_task.processed + 1
        /\ ingest_task'.indexed = ingest_task.indexed
        /\ ingest_task'.pc = "files"
        /\ ingest_task'.next = ingest_task.next + 1
        /\ ingest_job' = ingest_job

\* once the files are listed the task leaves the loop only after the last
\* file, and a completed job carries the task's counts and an error entry
\* for every file whose processing raised
FileErrorsReported ==
    /\ (ingest_task.next > 0 /\ ingest_task.pc # "files")
           => ingest_task.next = Len(ingest_task.files) + 1
    /\ ingest_job.state = "completed" =>
           /\ ingest_job.processed
                  = Bound(CountFiles(ingest_task.files, {"indexed", "empty", "error"}))
           /\ ingest_job.indexed
                  = Bound(ChunkCount * CountFiles(ingest_task.files, {"indexed"}))
           /\ \A n \in 1..Len(ingest_task.files) :
                  ingest_task.files[n] = "error" =>
                      \E e \in 1..Len(ingest_job.errors.value) :
                          ingest_job.errors.value[e].file_id = n

\* C30 (as claimed): the job's state only moves pending -> running ->
\* completed or pending -> running -> failed and never leaves completed or
\* failed; an error while processing one file is recorded in errors and
\* counted in processed, does not move the job to failed and does not stop
\* the remaining files from being processed.
C30_JobLifecycle ==
    /\ [][JobMovesWithin({<<"absent", "pending">>, <<"pending", "running">>,
                          <<"running", "completed">>, <<"running", "failed">>})]_vars
    /\ [][FileErrorIsolated]_vars
    /\ []FileErrorsReported
    /\ (ingest_task.pc = "files") ~> (ingest_task.pc \in {"returned", "raised"})

\* the completing update was applied and an exception followed it
AfterCompletingCommit ==
    /\ ingest_task.pc = "fatal"
    /\ ingest_task.next = Len(ingest_task.files) + 1
    /\ ingest_task.exception = "db error"

\* the task failed before it had marked the job running
BeforeRunning ==
    /\ ingest_task.pc = "fatal"
    /\ ingest_task.next = 0
    /\ ingest_task.exception = "db error"

\* C30 (amended): the job's state only moves pending -> running ->
\* completed or failed, pending -> failed when the task fails before it has
\* marked the job running, and completed -> failed when an exception follows
\* the completing update inside the task; it never leaves failed.  An error
\* while processing one file is recorded in errors and counted in
\* processed, does not move the job to failed and does not stop the
\* remaining files from being processed.
C30_JobLifecycleWithFailureMoves ==
    /\ [][JobMovesWithin({<<"absent", "pending">>, <<"pending", "running">>,
                          <<"running", "completed">>, <<"running", "failed">>,
                          <<"pending", "failed">>, <<"completed", "failed">>})]_vars
    /\ [][(ingest_job.state = "pending" /\ ingest_job'.state = "failed")
              => BeforeRunning]_vars
    /\ [][(ingest_job.state = "completed" /\ ingest_job'.state = "failed")
              => AfterCompletingCommit]_vars
    /\ [][ingest_job.state = "failed" => ingest_job' = ingest_job]_vars
    /\ [][FileErrorIsolated]_vars
    /\ []FileErrorsReported
    /\ (ingest_task.pc = "files") ~> (ingest_task.pc \in {"returned", "raised"})

\* the completing update was applied, an exception followed it and the
\* update to 'failed' went through: the job is failed with the counts of
\* the completed row, and the error entry of the file that failed is gone
C30_Witness ==
    /\ ingest_job.state = "failed"
    /\ ingest_task.pc = "raised"
    /\ ingest_task.files = <<"indexed", "error">>
    /\ ingest_task.next = 3
    /\ ingest_job.processed = Bound(2)
    /\ ingest_job.indexed = Bound(ChunkCount)
    /\ ingest_job.errors = Bound(<<[error |-> "db error"]>>)

\* the update to 'running' raised and the update to 'failed' went through:
\* the job is failed and was never running
C30_EarlyFailure ==
    /\ ingest_job.state = "failed"
    /\ ingest_task.pc = "raised"
    /\ ingest_task.next = 0
    /\ ingest_task.exception = "db error"
    /\ ~ingest_job.processed.bound

====
